---- MODULE Spec2Model ----
(***************************************************************************)
(* Ledger model of the two backtest engines of quant-trading-lab:          *)
(*   AStockBacktestEngine  (src/backtest/astock_engine.py)                 *)
(*   BacktestEngine        (src/backtest/engine.py)                        *)
(* with their run() drivers, of PerformanceAnalyzer                        *)
(* (src/backtest/performance.py) and of TradingSimulator                   *)
(* (src/execution/simulator.py).                                           *)
(*                                                                         *)
(* Specifications.                                                         *)
(*   Spec          an engine object and arbitrary buy / sell / update_t1   *)
(*                 calls with positive prices and sizes                    *)
(*   SizeSpec      the same calls with zero, negative and sub-lot sizes    *)
(*   RunSpec       run() of either engine over a bar series, one step per  *)
(*                 statement group of the loop body                        *)
(*   RoundTripSpec the A-share engine constructed with slippage = 0        *)
(*   AnalyzerSpec  PerformanceAnalyzer over bounded equity curves          *)
(*   ResultSpec    run() of either engine up to the result it returns      *)
(*   ConfigSpec    engines constructed with a negative commission rate     *)
(*   SimulatorSpec a TradingSimulator and the calls made on its orders     *)
(*                                                                         *)
(* Numbers.  The engines compute in Python floats.  The model computes in  *)
(* exact arithmetic: every money or price value is an integer number of    *)
(* hundredths of a currency unit (1.00 is written 100), every rate is a    *)
(* fraction [n, d], and an average cost is a reduced fraction [n, d] of    *)
(* hundredths.  The engine parameters below are constructor arguments; the *)
(* values are chosen so that every product with a rate is a whole number   *)
(* of hundredths, hence no rounding takes place anywhere in the model.     *)
(* A quantity or amount argument left at None is written 0 (the code tests *)
(* these arguments by truthiness only, where None and 0 agree).            *)
(* The pass-through fields of a trade record (date, name, reason, notes)   *)
(* are not modelled; the entry_date of a position is.                      *)
(***************************************************************************)
EXTENDS Integers, Sequences, FiniteSets, TLC

VARIABLES
    engine,      \* which object it is: "astock", "generic", "astock_slippage_0",
                 \* "astock_negative_commission", "generic_negative_commission"
                 \* or "simulator"
    date,        \* the current period (the date argument the caller passes)
    cash,        \* self.cash
    positions,   \* self.positions : code -> position record
    trades,      \* self.trades    : sequence of trade records
    today_buy,   \* self.today_buy : code -> quantity bought this period (astock)
    last,        \* the call made by the last step, with its return value
    \* run(): the driver loop
    data,        \* the Close column of the data argument, one entry per bar
    bar,         \* the bar the loop is at (enumerate index i, plus 1)
    pc,          \* the position of run() in its body
    prices,      \* the local prices dictionary
    equity_curve, \* self.equity_curve (self.equity_history in BacktestEngine)
    dates,       \* self.dates, as bar numbers
    signal,      \* what strategy_func returned for the bar
    calls,       \* how many times run() has called update_t1, strategy_func, buy/sell
    result,      \* the value run() returned
    \* PerformanceAnalyzer
    series,      \* self.equity_curve of the analyzer
    analyzer_trades, \* self.trades of the analyzer: the pnl attribute of each trade
    metrics,     \* the value returned by the method called last
    \* TradingSimulator (its self.cash and self.positions are cash and positions)
    orders,      \* self.orders: the Order objects, in order of creation
    order_id_counter, \* self.order_id_counter
    trade_history \* self.trade_history

driver == <<data, bar, pc, prices, equity_curve, dates, signal, calls, result>>
analyzer == <<series, analyzer_trades, metrics>>

simulator == <<orders, order_id_counter, trade_history>>

vars == <<engine, date, cash, positions, trades, today_buy, last, driver, analyzer, simulator>>

ledger == <<cash, positions, trades, today_buy>>

----------------------------------------------------------------------------
(* Bounds of the model *)

MaxTrades == 3
MaxDate == 2

Prices == {100, 1000}
\* buy requests <<quantity, amount>>
BuyRequests == {<<100, 0>>, <<250, 0>>, <<0, 25000>>, <<0, 0>>}
\* sell requests <<quantity, percent>>, percent a fraction or 0 for None
Half == [n |-> 1, d |-> 2]
NoPercent == [n |-> 0, d |-> 1]
SellRequests == {<<1, NoPercent>>, <<100, NoPercent>>, <<0, Half>>, <<0, NoPercent>>}
\* the calls made: every request on instrument A at every price, and a second
\* instrument B traded in whole at one price
BuyCalls == ({"A"} \X Prices \X BuyRequests) \cup {<<"B", 100, <<100, 0>>>>}
SellCalls == ({"A"} \X Prices \X SellRequests) \cup {<<"B", 100, <<0, NoPercent>>>>}

----------------------------------------------------------------------------
(* Exact arithmetic *)

Max(a, b) == IF a >= b THEN a ELSE b
Min(a, b) == IF a <= b THEN a ELSE b
Abs(a) == IF a < 0 THEN -a ELSE a

RECURSIVE GCD(_, _)
GCD(a, b) == IF b = 0 THEN a ELSE GCD(b, a % b)

\* the fraction n/d in lowest terms, d > 0
Frac(n, d) ==
    LET g == GCD(Abs(n), Abs(d))
        s == IF d < 0 THEN -1 ELSE 1
    IN [n |-> s * (n \div g), d |-> s * (d \div g)]
Whole(x) == [n |-> x, d |-> 1]
\* r * k, r + x and r / k for a fraction r in lowest terms and integers k, x (k # 0
\* in r / k)
FracTimes(r, k) == LET g == GCD(Abs(k), r.d) IN [n |-> r.n * (k \div g), d |-> r.d \div g]
FracPlus(r, x) == [n |-> r.n + x * r.d, d |-> r.d]
FracOver(r, k) == LET g == GCD(Abs(r.n), Abs(k)) IN Frac(r.n \div g, r.d * (k \div g))

\* x * r for a rate r
Times(x, r) == (x * r.n) \div r.d
\* x * r / r2 for rates r, r2
TimesOver(x, r, r2) == (x * r.n * r2.d) \div (r.d * r2.n)
\* 1 + r and 1 - r
OnePlus(r) == [n |-> r.d + r.n, d |-> r.d]
OneMinus(r) == [n |-> r.d - r.n, d |-> r.d]
\* int(n / d) for d > 0: the quotient truncated towards zero
IntDiv(n, d) == IF n >= 0 THEN n \div d ELSE -((-n) \div d)
\* int(x * r)
IntTimes(x, r) == IntDiv(x * r.n, r.d)

----------------------------------------------------------------------------
(* AStockBacktestEngine: constructor arguments *)

initial_capital == 122000
\* 1/10, or -1/10 in the object constructed with commission_rate=-0.1
commission_rate == IF engine = "astock_negative_commission" THEN [n |-> -1, d |-> 10] ELSE [n |-> 1, d |-> 10]
min_commission == 2000
stamp_duty_rate == [n |-> 1, d |-> 10]
\* 1/10, or 0 in the object constructed with slippage=0
slippage == IF engine = "astock_slippage_0" THEN [n |-> 0, d |-> 1] ELSE [n |-> 1, d |-> 10]
limit_up_ratio == [n |-> 1, d |-> 10]
limit_down_ratio == [n |-> -1, d |-> 10]

\* mutant: the minimum commission is not applied
calculate_commission_no_floor(amount) == Times(amount, commission_rate)

calculate_commission(amount) ==
    LET commission == Times(amount, commission_rate)
    IN Max(commission, min_commission)

calculate_stamp_duty(amount) == Times(amount, stamp_duty_rate)

get_limit_price(price, action) ==
    IF action = "BUY"
    THEN Times(price, OnePlus(limit_up_ratio))
    ELSE Times(price, OnePlus(limit_down_ratio))

\* can_buy(code, price, quantity) -> bool
can_buy(code, price, quantity) ==
    LET limit_price == get_limit_price(price, "BUY")
        cost == Times(price * quantity, OnePlus(slippage))
        commission == calculate_commission(cost)
        total_cost == cost + commission
    IN IF price >= limit_price THEN FALSE
       ELSE IF total_cost > cash THEN FALSE
       ELSE TRUE

\* can_sell(code, quantity) -> bool
can_sell(code, quantity) ==
    IF code \notin DOMAIN positions THEN FALSE
    ELSE IF positions[code].available < quantity THEN FALSE
    ELSE TRUE

\* mutant: an amount below one lot is not raised to one lot
buy_quantity_no_minimum(price, quantity, amount) ==
    LET q1 == IF quantity # 0 /\ quantity % 100 # 0
              THEN (quantity \div 100) * 100
              ELSE quantity
    IN IF amount # 0 /\ q1 = 0
       THEN IntDiv(amount, price * 100) * 100
       ELSE q1

\* the quantity buy() works with after lot rounding and amount conversion
buy_quantity(price, quantity, amount) ==
    LET q1 == IF quantity # 0 /\ quantity % 100 # 0
              THEN (quantity \div 100) * 100
              ELSE quantity
    IN IF amount # 0 /\ q1 = 0
       THEN Max(IntDiv(amount, price * 100) * 100, 100)
       ELSE q1

----------------------------------------------------------------------------
(* Dictionaries *)

Put(m, k, v) == [x \in (DOMAIN m) \cup {k} |-> IF x = k THEN v ELSE m[x]]
Del(m, k) == [x \in (DOMAIN m) \ {k} |-> m[x]]
Get(m, k, default) == IF k \in DOMAIN m THEN m[k] ELSE default
EmptyDict == [x \in {} |-> 0]

\* the outcome of a call: its return value and the object's fields after it
Outcome(ret, c, p, t, tb) ==
    [ret |-> ret, cash |-> c, positions |-> p, trades |-> t, today_buy |-> tb]
Rejected == Outcome(FALSE, cash, positions, trades, today_buy)

----------------------------------------------------------------------------
(* AStockBacktestEngine.buy *)

\* the position entry after a buy of quantity shares at exec_price
buy_position(dt, code, quantity, exec_price) ==
    IF code \in DOMAIN positions
    THEN LET pos == positions[code]
             new_quantity == pos.quantity + quantity
             total_cost_basis == FracPlus(FracTimes(pos.avg_cost, pos.quantity),
                                          exec_price * quantity)
             avg_cost == FracOver(total_cost_basis, new_quantity)
         IN [pos EXCEPT !.quantity = new_quantity,
                        !.avg_cost = avg_cost,
                        !.available = new_quantity]
    ELSE [quantity |-> quantity,
          avg_cost |-> Whole(exec_price),
          available |-> 0,
          entry_date |-> dt]

buy_trade(code, exec_price, quantity, gross_amount, commission, total_cost) ==
    [code |-> code, action |-> "BUY", price |-> exec_price,
     quantity |-> quantity, amount |-> gross_amount, commission |-> commission,
     stamp_duty |-> 0, total_cost |-> total_cost]

\* mutant: the commission of a buy is recorded but not taken from the cash
buy_execute_debits_gross(dt, code, price, quantity) ==
    LET exec_price == Times(price, OnePlus(slippage))
        gross_amount == exec_price * quantity
        commission == calculate_commission(gross_amount)
        total_cost == gross_amount + commission
    IN Outcome(TRUE,
               cash - gross_amount,
               Put(positions, code, buy_position(dt, code, quantity, exec_price)),
               Append(trades, buy_trade(code, exec_price, quantity,
                                        gross_amount, commission, total_cost)),
               Put(today_buy, code, Get(today_buy, code, 0) + quantity))

\* the part of buy() after the checks
buy_execute(dt, code, price, quantity) ==
    LET exec_price == Times(price, OnePlus(slippage))
        gross_amount == exec_price * quantity
        commission == calculate_commission(gross_amount)
        total_cost == gross_amount + commission
    IN Outcome(TRUE,
               cash - total_cost,
               Put(positions, code, buy_position(dt, code, quantity, exec_price)),
               Append(trades, buy_trade(code, exec_price, quantity,
                                        gross_amount, commission, total_cost)),
               Put(today_buy, code, Get(today_buy, code, 0) + quantity))

\* mutant: the buy is booked before can_buy is consulted
astock_buy_books_first(dt, code, price, quantity, amount) ==
    LET q == buy_quantity(price, quantity, amount)
    IN IF q = 0 THEN Rejected
       ELSE [buy_execute(dt, code, price, q) EXCEPT !.ret = can_buy(code, price, q)]

astock_buy(dt, code, price, quantity, amount) ==
    LET q == buy_quantity(price, quantity, amount)
    IN IF q = 0 THEN Rejected
       ELSE IF ~can_buy(code, price, q) THEN Rejected
       ELSE buy_execute(dt, code, price, q)

\* buy() passes its checks and then divides by a position quantity of 0 (line 212)
astock_buy_divides_by_zero(code, price, quantity, amount) ==
    LET q == buy_quantity(price, quantity, amount)
    IN /\ q # 0
       /\ can_buy(code, price, q)
       /\ code \in DOMAIN positions
       /\ positions[code].quantity + q = 0

\* ZeroDivisionError leaves buy() after the cash and the position quantity were
\* updated (lines 205, 211), before available, today_buy and trades are
astock_buy_raised(code, price, quantity, amount) ==
    LET q == buy_quantity(price, quantity, amount)
        exec_price == Times(price, OnePlus(slippage))
        gross_amount == exec_price * q
        commission == calculate_commission(gross_amount)
        total_cost == gross_amount + commission
    IN Outcome(FALSE,
               cash - total_cost,
               Put(positions, code, [positions[code] EXCEPT !.quantity = 0]),
               trades,
               today_buy)

----------------------------------------------------------------------------
(* AStockBacktestEngine.sell *)

\* the quantity sell() works with: percent of available, or all, capped
\* mutant: the requested quantity is not capped at the available quantity
sell_quantity_uncapped(pos, quantity, percent) ==
    IF percent.n # 0 THEN IntTimes(pos.available, percent)
    ELSE IF quantity = 0 THEN pos.available
    ELSE quantity

sell_quantity(pos, quantity, percent) ==
    LET q == IF percent.n # 0 THEN IntTimes(pos.available, percent)
             ELSE IF quantity = 0 THEN pos.available
             ELSE quantity
    IN Min(q, pos.available)

\* the positions after quantity shares of code are sold
sell_position(code, quantity) ==
    LET pos == positions[code]
        remaining == pos.quantity - quantity
    IN IF remaining <= 0
       THEN Del(positions, code)
       ELSE Put(positions, code, [pos EXCEPT !.quantity = remaining,
                                             !.available = pos.available - quantity])

sell_trade(code, exec_price, quantity, gross_amount, commission, stamp_duty, proceeds) ==
    [code |-> code, action |-> "SELL", price |-> exec_price,
     quantity |-> quantity, amount |-> gross_amount, commission |-> commission,
     stamp_duty |-> stamp_duty, total_cost |-> -proceeds]

\* mutant: the sell is written over the last record of the trade list
sell_execute_overwrites(dt, code, price, quantity) ==
    LET exec_price == Times(price, OneMinus(slippage))
        gross_amount == exec_price * quantity
        commission == calculate_commission(gross_amount)
        stamp_duty == calculate_stamp_duty(gross_amount)
        total_proceeds == gross_amount - commission - stamp_duty
    IN Outcome(TRUE,
               cash + total_proceeds,
               sell_position(code, quantity),
               [trades EXCEPT ![Len(trades)] =
                   sell_trade(code, exec_price, quantity, gross_amount,
                              commission, stamp_duty, total_proceeds)],
               today_buy)

\* the part of sell() after the checks
sell_execute(dt, code, price, quantity) ==
    LET exec_price == Times(price, OneMinus(slippage))
        gross_amount == exec_price * quantity
        commission == calculate_commission(gross_amount)
        stamp_duty == calculate_stamp_duty(gross_amount)
        total_proceeds == gross_amount - commission - stamp_duty
    IN Outcome(TRUE,
               cash + total_proceeds,
               sell_position(code, quantity),
               Append(trades, sell_trade(code, exec_price, quantity, gross_amount,
                                         commission, stamp_duty, total_proceeds)),
               today_buy)

astock_sell(dt, code, price, quantity, percent) ==
    IF code \notin DOMAIN positions THEN Rejected
    ELSE LET q == sell_quantity(positions[code], quantity, percent)
         IN IF q <= 0 THEN Rejected
            ELSE IF price <= get_limit_price(price, "SELL") THEN Rejected
            ELSE sell_execute(dt, code, price, q)

----------------------------------------------------------------------------
(* AStockBacktestEngine.update_t1 *)

\* mutant: the pending quantities are dropped without being made available
update_t1_positions_no_settlement == positions

update_t1_positions ==
    [code \in DOMAIN positions |->
        IF code \in DOMAIN today_buy
        THEN [positions[code] EXCEPT !.available = @ + today_buy[code]]
        ELSE positions[code]]

----------------------------------------------------------------------------
(* BacktestEngine: constructor arguments, buy, sell *)

engine_initial_capital == 122000
\* 1/10, or -1/10 in the object constructed with commission=-0.1
engine_commission == IF engine = "generic_negative_commission" THEN [n |-> -1, d |-> 10] ELSE [n |-> 1, d |-> 10]
engine_slippage == [n |-> 1, d |-> 10]
engine_stamp_duty == [n |-> 1, d |-> 10]

\* the float nan, as an average price
NaN == [n |-> 0, d |-> 0]

engine_buy_position(dt, symbol, quantity, exec_price) ==
    IF symbol \in DOMAIN positions
    THEN LET pos == positions[symbol]
             new_quantity == pos.quantity + quantity
             total_cost == FracPlus(FracTimes(pos.avg_price, pos.quantity),
                                    exec_price * quantity)
             avg_price == IF pos.avg_price = NaN THEN NaN
                          ELSE FracOver(total_cost, new_quantity)
         IN [pos EXCEPT !.quantity = new_quantity, !.avg_price = avg_price]
    ELSE [quantity |-> quantity, avg_price |-> Whole(exec_price), entry_date |-> dt]

engine_trade(symbol, action, exec_price, quantity, commission) ==
    [symbol |-> symbol, action |-> action, price |-> exec_price,
     quantity |-> quantity, commission |-> commission]

\* what buy() takes from self.cash, given the cost it checked against the cash
engine_buy_debit(cost, commission) == cost - commission

\* the quantity buy() works with: the one given, or int(amount / exec_price)
engine_buy_quantity(price, quantity, amount) ==
    LET exec_price == Times(price, OnePlus(engine_slippage))
    IN IF amount # 0 /\ quantity = 0 THEN IntDiv(amount, exec_price) ELSE quantity

\* buy() passes its checks and then divides by a position quantity of 0 (line 124)
engine_buy_divides_by_zero(symbol, price, quantity, amount) ==
    LET exec_price == Times(price, OnePlus(engine_slippage))
        q == engine_buy_quantity(price, quantity, amount)
        cost == Times(q * exec_price, OnePlus(engine_commission))
    IN /\ (amount # 0 /\ quantity = 0) \/ (quantity # 0 /\ amount = 0)
       /\ cost <= cash
       /\ symbol \in DOMAIN positions
       /\ positions[symbol].quantity + q = 0

\* the division by zero with Python floats: ZeroDivisionError leaves buy() after the
\* cash and the position quantity were updated, before the Trade is appended
engine_buy_raised(symbol, price, quantity, amount) ==
    LET exec_price == Times(price, OnePlus(engine_slippage))
        q == engine_buy_quantity(price, quantity, amount)
        cost == Times(q * exec_price, OnePlus(engine_commission))
        commission == TimesOver(cost, engine_commission, OnePlus(engine_commission))
    IN Outcome(FALSE,
               cash - (cost - commission),
               Put(positions, symbol, [positions[symbol] EXCEPT !.quantity = 0]),
               trades,
               today_buy)

\* the division 0.0 / 0 with numpy floats (a price read from a float64 column):
\* a warning, the average price becomes nan and buy() completes
engine_buy_nan(symbol, price, quantity, amount) ==
    LET exec_price == Times(price, OnePlus(engine_slippage))
        q == engine_buy_quantity(price, quantity, amount)
        cost == Times(q * exec_price, OnePlus(engine_commission))
        commission == TimesOver(cost, engine_commission, OnePlus(engine_commission))
    IN Outcome(TRUE,
               cash - (cost - commission),
               Put(positions, symbol, [positions[symbol] EXCEPT !.quantity = 0,
                                                                !.avg_price = NaN]),
               Append(trades, engine_trade(symbol, "BUY", exec_price, q, commission)),
               today_buy)

engine_buy(dt, symbol, price, quantity, amount) ==
    LET exec_price == Times(price, OnePlus(engine_slippage))
        q == engine_buy_quantity(price, quantity, amount)
        cost == Times(q * exec_price, OnePlus(engine_commission))
        commission == TimesOver(cost, engine_commission, OnePlus(engine_commission))
    IN IF ~((amount # 0 /\ quantity = 0) \/ (quantity # 0 /\ amount = 0)) THEN Rejected
       ELSE IF cost > cash THEN Rejected
       ELSE Outcome(TRUE,
                    cash - engine_buy_debit(cost, commission),
                    Put(positions, symbol,
                        engine_buy_position(dt, symbol, q, exec_price)),
                    Append(trades, engine_trade(symbol, "BUY", exec_price, q,
                                                commission)),
                    today_buy)

engine_sell_quantity(pos, quantity, percent) ==
    LET q == IF percent.n # 0 THEN IntTimes(pos.quantity, percent)
             ELSE IF quantity = 0 THEN pos.quantity
             ELSE quantity
    IN Min(q, pos.quantity)

\* mutant: a partial sell scales the average price with the remaining quantity
engine_sell_position_rebased(symbol, quantity) ==
    LET pos == positions[symbol]
        remaining == pos.quantity - quantity
    IN IF remaining <= 0
       THEN Del(positions, symbol)
       ELSE Put(positions, symbol,
                [pos EXCEPT !.quantity = remaining,
                            !.avg_price = FracOver(FracTimes(pos.avg_price, pos.quantity),
                                                   remaining)])

engine_sell_position(symbol, quantity) ==
    LET pos == positions[symbol]
        remaining == pos.quantity - quantity
    IN IF remaining <= 0
       THEN Del(positions, symbol)
       ELSE Put(positions, symbol, [pos EXCEPT !.quantity = remaining])

engine_sell(dt, symbol, price, quantity, percent) ==
    IF symbol \notin DOMAIN positions THEN Rejected
    ELSE LET q == engine_sell_quantity(positions[symbol], quantity, percent)
             exec_price == Times(price, OneMinus(engine_slippage))
             gross == q * exec_price
             commission == Times(gross, engine_commission)
             stamp == Times(gross, engine_stamp_duty)
             net == gross - commission - stamp
         IN Outcome(TRUE,
                    cash + net,
                    engine_sell_position(symbol, q),
                    Append(trades, engine_trade(symbol, "SELL", exec_price, q,
                                                commission)),
                    today_buy)

----------------------------------------------------------------------------
(* The state machine: an engine object and the calls made on it *)

\* a call: the method, the instrument, the quantity and percent arguments, the result
Call(op, code, quantity, percent, ret) ==
    [op |-> op, code |-> code, quantity |-> quantity, percent |-> percent, ret |-> ret]

\* reset(): the fields of a fresh object
Reset ==
    /\ date = 0
    /\ cash = IF engine = "generic" THEN engine_initial_capital ELSE initial_capital
    /\ positions = EmptyDict
    /\ trades = <<>>
    /\ today_buy = EmptyDict
    /\ equity_curve = <<>>
    /\ dates = <<>>
    /\ last = Call("init", "", 0, NoPercent, TRUE)

\* run() has not returned
NoResult == [returned |-> FALSE]

\* run() is not executing
NoRun ==
    /\ result = NoResult
    /\ data = <<>>
    /\ bar = 0
    /\ pc = "idle"
    /\ prices = EmptyDict
    /\ signal = "None"
    /\ calls = [update_t1 |-> 0, strategy_func |-> 0, orders |-> 0]

\* no PerformanceAnalyzer has been constructed
NoAnalyzer ==
    /\ series = <<>>
    /\ analyzer_trades = <<>>
    /\ metrics = [method |-> "None"]

\* no TradingSimulator has been constructed
NoSimulator ==
    /\ orders = <<>>
    /\ order_id_counter = 0
    /\ trade_history = <<>>

\* an engine object as its constructor leaves it
Init ==
    /\ engine \in {"astock", "generic"}
    /\ Reset
    /\ NoRun
    /\ NoAnalyzer
    /\ NoSimulator

\* the fields of the object after a call with outcome o
Become(o) ==
    /\ cash' = o.cash
    /\ positions' = o.positions
    /\ trades' = o.trades
    /\ today_buy' = o.today_buy

Apply(o) ==
    /\ Len(o.trades) <= MaxTrades
    /\ Become(o)

AStockBuy ==
    /\ engine = "astock"
    /\ \E call \in BuyCalls :
         LET code == call[1]
             price == call[2]
             req == call[3]
             o == astock_buy(date, code, price, req[1], req[2])
         IN /\ Apply(o)
            /\ last' = Call("buy", code, req[1], NoPercent, o.ret)
    /\ UNCHANGED <<engine, date, driver, analyzer, simulator>>

AStockSell ==
    /\ engine = "astock"
    /\ \E call \in SellCalls :
         LET code == call[1]
             price == call[2]
             req == call[3]
             o == astock_sell(date, code, price, req[1], req[2])
         IN /\ Apply(o)
            /\ last' = Call("sell", code, req[1], req[2], o.ret)
    /\ UNCHANGED <<engine, date, driver, analyzer, simulator>>

\* update_t1(date), called by the driver when a new period starts
UpdateT1 ==
    /\ engine \notin {"generic", "generic_negative_commission"}
    /\ date < MaxDate
    /\ date' = date + 1
    /\ positions' = update_t1_positions
    /\ today_buy' = EmptyDict
    /\ last' = Call("update_t1", "", 0, NoPercent, TRUE)
    /\ UNCHANGED <<engine, cash, trades, driver, analyzer, simulator>>

EngineBuy ==
    /\ engine = "generic"
    /\ \E call \in BuyCalls :
         LET symbol == call[1]
             price == call[2]
             req == call[3]
             o == engine_buy(date, symbol, price, req[1], req[2])
         IN /\ Apply(o)
            /\ last' = Call("buy", symbol, req[1], NoPercent, o.ret)
    /\ UNCHANGED <<engine, date, driver, analyzer, simulator>>

EngineSell ==
    /\ engine = "generic"
    /\ \E call \in SellCalls :
         LET symbol == call[1]
             price == call[2]
             req == call[3]
             o == engine_sell(date, symbol, price, req[1], req[2])
         IN /\ Apply(o)
            /\ last' = Call("sell", symbol, req[1], req[2], o.ret)
    /\ UNCHANGED <<engine, date, driver, analyzer, simulator>>

Next == AStockBuy \/ AStockSell \/ UpdateT1 \/ EngineBuy \/ EngineSell

Spec == Init /\ [][Next]_vars

----------------------------------------------------------------------------
(* Engines constructed with a negative commission rate *)

\* AStockBacktestEngine(commission_rate=-0.1) or BacktestEngine(commission=-0.1):
\* __init__ stores its arguments and calls reset()
ConfigInit ==
    /\ engine \in {"astock_negative_commission", "generic_negative_commission"}
    /\ Reset
    /\ NoRun
    /\ NoAnalyzer
    /\ NoSimulator

ConfigBuy ==
    /\ \E call \in BuyCalls :
         LET code == call[1]
             price == call[2]
             req == call[3]
             o == IF engine = "astock_negative_commission"
                  THEN astock_buy(date, code, price, req[1], req[2])
                  ELSE engine_buy(date, code, price, req[1], req[2])
         IN /\ Apply(o)
            /\ last' = Call("buy", code, req[1], NoPercent, o.ret)
    /\ UNCHANGED <<engine, date, driver, analyzer, simulator>>

ConfigSell ==
    /\ \E call \in SellCalls :
         LET code == call[1]
             price == call[2]
             req == call[3]
             o == IF engine = "astock_negative_commission"
                  THEN astock_sell(date, code, price, req[1], req[2])
                  ELSE engine_sell(date, code, price, req[1], req[2])
         IN /\ Apply(o)
            /\ last' = Call("sell", code, req[1], req[2], o.ret)
    /\ UNCHANGED <<engine, date, driver, analyzer, simulator>>

ConfigNext == ConfigBuy \/ ConfigSell \/ UpdateT1

ConfigSpec == ConfigInit /\ [][ConfigNext]_vars

----------------------------------------------------------------------------
(* The same calls with zero, negative and sub-lot sizes *)

SizeCode == "A"
SizePrice == 1000
\* a percent that resolves to 0 shares of any position of the model
Tiny == [n |-> 1, d |-> 1000]
\* buy requests <<quantity, amount>> and sell requests <<quantity, percent>>
SizeBuyRequests ==
    {<<100, 0>>, <<50, 0>>, <<0, 0>>, <<-100, 0>>, <<0, 50>>, <<50, 5000>>, <<0, -5000>>}
SizeSellRequests ==
    {<<100, NoPercent>>, <<0, NoPercent>>, <<-100, NoPercent>>, <<0, Tiny>>}

\* a call with all its size arguments, and whether it returned True
SizedCall(op, code, quantity, amount, percent, ret) ==
    [op |-> op, code |-> code, quantity |-> quantity, amount |-> amount,
     percent |-> percent, ret |-> ret]

SizeAStockBuy ==
    /\ engine = "astock"
    /\ \E req \in SizeBuyRequests :
         IF astock_buy_divides_by_zero(SizeCode, SizePrice, req[1], req[2])
         THEN /\ Become(astock_buy_raised(SizeCode, SizePrice, req[1], req[2]))
              /\ last' = SizedCall("buy raises ZeroDivisionError", SizeCode,
                                   req[1], req[2], NoPercent, FALSE)
         ELSE LET o == astock_buy(date, SizeCode, SizePrice, req[1], req[2])
              IN /\ Apply(o)
                 /\ last' = SizedCall("buy", SizeCode, req[1], req[2], NoPercent, o.ret)
    /\ UNCHANGED <<engine, date, driver, analyzer, simulator>>

SizeAStockSell ==
    /\ engine = "astock"
    /\ \E req \in SizeSellRequests :
         LET o == astock_sell(date, SizeCode, SizePrice, req[1], req[2])
         IN /\ Apply(o)
            /\ last' = SizedCall("sell", SizeCode, req[1], 0, req[2], o.ret)
    /\ UNCHANGED <<engine, date, driver, analyzer, simulator>>

SizeEngineBuy ==
    /\ engine = "generic"
    /\ \E req \in SizeBuyRequests :
         IF engine_buy_divides_by_zero(SizeCode, SizePrice, req[1], req[2])
         THEN /\ Become(engine_buy_raised(SizeCode, SizePrice, req[1], req[2]))
              /\ last' = SizedCall("buy raises ZeroDivisionError", SizeCode,
                                   req[1], req[2], NoPercent, FALSE)
         ELSE LET o == engine_buy(date, SizeCode, SizePrice, req[1], req[2])
              IN /\ Apply(o)
                 /\ last' = SizedCall("buy", SizeCode, req[1], req[2], NoPercent, o.ret)
    /\ UNCHANGED <<engine, date, driver, analyzer, simulator>>

SizeEngineSell ==
    /\ engine = "generic"
    /\ \E req \in SizeSellRequests :
         LET o == engine_sell(date, SizeCode, SizePrice, req[1], req[2])
         IN /\ Apply(o)
            /\ last' = SizedCall("sell", SizeCode, req[1], 0, req[2], o.ret)
    /\ UNCHANGED <<engine, date, driver, analyzer, simulator>>

SizeNext == SizeAStockBuy \/ SizeAStockSell \/ UpdateT1 \/ SizeEngineBuy \/ SizeEngineSell

SizeSpec == Init /\ [][SizeNext]_vars

----------------------------------------------------------------------------
(* Round trips: AStockBacktestEngine(slippage=0), selling a position and buying it back *)

MaxRoundTrades == 4
RoundCode == "A"
RoundBuyQuantities == {100, 250}
\* one share, or the whole of what is available
RoundSellRequests == {<<1, NoPercent>>, <<0, NoPercent>>}

\* a call with its price, and the cash and the quantity held of the instrument before it
RoundCall(op, price, quantity, percent, ret) ==
    [op |-> op, code |-> RoundCode, price |-> price, quantity |-> quantity,
     percent |-> percent, ret |-> ret, cash_before |-> cash,
     held_before |-> IF RoundCode \in DOMAIN positions
                     THEN positions[RoundCode].quantity ELSE 0]

RoundTripInit ==
    /\ engine = "astock_slippage_0"
    /\ Reset
    /\ NoRun
    /\ NoAnalyzer
    /\ NoSimulator

RoundApply(o) ==
    /\ Len(o.trades) <= MaxRoundTrades
    /\ Become(o)

RoundTripBuy ==
    /\ \E price \in Prices, quantity \in RoundBuyQuantities :
         LET o == astock_buy(date, RoundCode, price, quantity, 0)
         IN /\ RoundApply(o)
            /\ last' = RoundCall("buy", price, quantity, NoPercent, o.ret)
    /\ UNCHANGED <<engine, date, driver, analyzer, simulator>>

RoundTripSell ==
    /\ \E price \in Prices, req \in RoundSellRequests :
         LET o == astock_sell(date, RoundCode, price, req[1], req[2])
         IN /\ RoundApply(o)
            /\ last' = RoundCall("sell", price, req[1], req[2], o.ret)
    /\ UNCHANGED <<engine, date, driver, analyzer, simulator>>

\* the position just sold in full is bought back: the same quantity at the same price
RoundTripRebuy ==
    /\ last.op = "sell" /\ last.ret
    /\ RoundCode \notin DOMAIN positions
    /\ LET o == astock_buy(date, RoundCode, last.price, last.held_before, 0)
       IN /\ RoundApply(o)
          /\ last' = RoundCall("rebuy", last.price, last.held_before, NoPercent, o.ret)
    /\ UNCHANGED <<engine, date, driver, analyzer, simulator>>

RoundTripNext == RoundTripBuy \/ RoundTripSell \/ RoundTripRebuy \/ UpdateT1

RoundTripSpec == RoundTripInit /\ [][RoundTripNext]_vars

----------------------------------------------------------------------------
(* calculate_result(): the statistics run() returns *)

FracLess(a, b) == a.n * b.d < b.n * a.d
FracAbs(a) == IF a = NaN THEN NaN ELSE [n |-> Abs(a.n), d |-> a.d]
FracAdd(a, b) == Frac(a.n * b.d + b.n * a.d, a.d * b.d)
FracQuot(a, b) == Frac(a.n * b.d, a.d * b.n)
RECURSIVE FracSum(_)
FracSum(q) == IF q = <<>> THEN Whole(0) ELSE FracAdd(q[1], FracSum(Tail(q)))
\* np.mean of a list of fractions
FracMean(q) == LET t == FracSum(q) IN Frac(t.n, t.d * Len(q))
\* the elements of q for which Test holds, in order
Filter(q, Test(_)) == SelectSeq(q, Test)
\* q with the operator F applied to each element
Map(q, F(_)) == [i \in 1..Len(q) |-> F(q[i])]

\* equity_series.cummax() at period i
RECURSIVE rolling_max(_, _)
rolling_max(eq, i) == IF i = 1 THEN eq[1] ELSE Max(rolling_max(eq, i - 1), eq[i])
\* (equity_series - rolling_max).min() over the periods 1 .. i, nan for no period
RECURSIVE max_drawdown(_, _)
max_drawdown(eq, i) ==
    IF i = 0 THEN NaN
    ELSE IF i = 1 THEN Whole(eq[1] - rolling_max(eq, 1))
    ELSE LET m == max_drawdown(eq, i - 1)
             x == Whole(eq[i] - rolling_max(eq, i))
         IN IF FracLess(x, m) THEN x ELSE m

\* (final_capital / initial_capital - 1) * 100
total_return_pct(final_capital, initial) == Frac((final_capital - initial) * 100, initial)

\* buys: all the BUY trades of the instrument, wherever they are in the list
astock_buys(ts, code) == Filter(ts, LAMBDA t : t.action = "BUY" /\ t.code = code)
\* avg_buy_price = np.mean([t.price for t in buys])
avg_buy_price(buys) == FracMean(Map(buys, LAMBDA t : Whole(t.price)))
\* the SELL trades the two loops do not skip
astock_paired_sells(ts, pos) ==
    Filter(ts, LAMBDA t : /\ t.action = "SELL"
                          /\ t.code \notin DOMAIN pos
                          /\ astock_buys(ts, t.code) # <<>>)
\* (trade.price - avg_buy_price) * trade.quantity, the profit of the streak loop
astock_gross_profit(ts, trade) ==
    LET avg == avg_buy_price(astock_buys(ts, trade.code))
    IN Frac((trade.price * avg.d - avg.n) * trade.quantity, avg.d)
\* the same less trade.commission and trade.stamp_duty, the profit of the first loop
astock_profit(ts, trade) ==
    FracPlus(astock_gross_profit(ts, trade), -(trade.commission + trade.stamp_duty))

\* sum(profits) / sum(losses) if losses and sum(losses) > 0 else 0
profit_factor(profits, losses) ==
    IF losses # <<>> /\ FracSum(losses).n > 0 THEN FracQuot(FracSum(profits), FracSum(losses))
    ELSE Whole(0)

\* the counters of the streak loop after sells of which q tells whether each one
\* had profit > 0
RECURSIVE consecutive(_)
consecutive(q) ==
    IF q = <<>>
    THEN [max_consecutive_wins |-> 0, max_consecutive_losses |-> 0,
          current_wins |-> 0, current_losses |-> 0]
    ELSE LET c == consecutive(SubSeq(q, 1, Len(q) - 1))
         IN IF q[Len(q)]
            THEN [c EXCEPT !.current_wins = @ + 1, !.current_losses = 0,
                           !.max_consecutive_wins = Max(@, c.current_wins + 1)]
            ELSE [c EXCEPT !.current_losses = @ + 1, !.current_wins = 0,
                           !.max_consecutive_losses = Max(@, c.current_losses + 1)]

\* AStockBacktestEngine.calculate_result(); the annual return and the Sharpe ratio,
\* which are irrational in general, are left out of the record
astock_calculate_result(eq, ts, pos) ==
    IF eq = <<>> THEN [returned |-> TRUE, none |-> TRUE]
    ELSE LET final_capital == eq[Len(eq)]
             sells == astock_paired_sells(ts, pos)
             profits == Map(Filter(sells, LAMBDA t : astock_profit(ts, t).n > 0),
                            LAMBDA t : astock_profit(ts, t))
             losses == Map(Filter(sells, LAMBDA t : astock_profit(ts, t).n <= 0),
                           LAMBDA t : FracAbs(astock_profit(ts, t)))
             streaks == consecutive(Map(sells, LAMBDA t : astock_gross_profit(ts, t).n > 0))
             total_trades == Len(profits) + Len(losses)
         IN [returned |-> TRUE, none |-> FALSE,
             final_capital |-> final_capital,
             total_return |-> final_capital - initial_capital,
             total_return_pct |-> total_return_pct(final_capital, initial_capital),
             max_drawdown |-> max_drawdown(eq, Len(eq)),
             win_rate |-> IF total_trades > 0 THEN Frac(Len(profits) * 100, total_trades)
                          ELSE Whole(0),
             profit_factor |-> profit_factor(profits, losses),
             total_trades |-> total_trades,
             winning_trades |-> Len(profits),
             losing_trades |-> Len(losses),
             avg_profit |-> IF profits # <<>> THEN FracMean(profits) ELSE Whole(0),
             avg_loss |-> IF losses # <<>> THEN FracMean(losses) ELSE Whole(0),
             max_consecutive_wins |-> streaks.max_consecutive_wins,
             max_consecutive_losses |-> streaks.max_consecutive_losses,
             trading_days |-> Len(eq)]

\* the pairing loop of BacktestEngine.calculate_result over the trades ts: the
\* dictionary position (symbol -> price of the last BUY not yet paired) and the
\* lists wins and losses
RECURSIVE engine_pairing(_)
engine_pairing(ts) ==
    IF ts = <<>> THEN [position |-> EmptyDict, wins |-> <<>>, losses |-> <<>>]
    ELSE LET v == engine_pairing(SubSeq(ts, 1, Len(ts) - 1))
             trade == ts[Len(ts)]
         IN IF trade.action = "BUY"
            THEN [v EXCEPT !.position = Put(v.position, trade.symbol, trade.price)]
            ELSE IF trade.symbol \in DOMAIN v.position
            THEN LET profit == (trade.price - v.position[trade.symbol]) * trade.quantity
                 IN [position |-> Del(v.position, trade.symbol),
                     wins |-> IF profit > 0 THEN Append(v.wins, Whole(profit)) ELSE v.wins,
                     losses |-> IF profit > 0 THEN v.losses
                                ELSE Append(v.losses, Whole(Abs(profit)))]
            ELSE v

\* BacktestEngine.calculate_result(), the Sharpe ratio left out
engine_calculate_result(eq, ts) ==
    LET final_capital == IF eq # <<>> THEN eq[Len(eq)] ELSE engine_initial_capital
        v == engine_pairing(ts)
        total_trades == Len(v.wins) + Len(v.losses)
    IN [returned |-> TRUE, none |-> FALSE,
        final_capital |-> final_capital,
        total_return |-> final_capital - engine_initial_capital,
        total_return_pct |-> total_return_pct(final_capital, engine_initial_capital),
        max_drawdown |-> max_drawdown(eq, Len(eq)),
        win_rate |-> IF total_trades > 0 THEN Frac(Len(v.wins) * 100, total_trades)
                     ELSE Whole(0),
        profit_factor |-> profit_factor(v.wins, v.losses),
        total_trades |-> total_trades,
        winning_trades |-> Len(v.wins),
        losing_trades |-> Len(v.losses),
        avg_win |-> IF v.wins # <<>> THEN FracMean(v.wins) ELSE Whole(0),
        avg_loss |-> IF v.losses # <<>> THEN FracMean(v.losses) ELSE Whole(0)]

----------------------------------------------------------------------------
(* run(): the driver loop of both engines, one bar after the other *)

MaxBars == 3

\* the Close column: an instrument quoted at 10.00 or 9.00 (from one to the other is a
\* move of 10 per cent or more), or one quoted at 600.00, above the initial capital
Data == UNION {[1..n -> {1000, 900}] \cup [1..n -> {60000}] : n \in 1..MaxBars}
Signals == {"BUY", "SELL", "SELL_ALL", "None"}
\* the code argument
RunCode == "A"
\* the quantity run() passes for SELL_ALL
SellAllQuantity == 999999

RECURSIVE PortfolioValue(_, _)
PortfolioValue(codes, p) ==
    IF codes = {} THEN 0
    ELSE LET code == CHOOSE c \in codes : TRUE
         IN (IF code \in DOMAIN p THEN positions[code].quantity * p[code] ELSE 0)
            + PortfolioValue(codes \ {code}, p)

\* mutant: the positions are left out of the equity
get_equity_cash_only(p) == cash

get_equity(p) == cash + PortfolioValue(DOMAIN positions, p)

\* the local variables of run() before the first bar
RunEntered ==
    /\ bar = 1
    /\ pc = "bar"
    /\ prices = EmptyDict
    /\ signal = "None"
    /\ calls = [update_t1 |-> 0, strategy_func |-> 0, orders |-> 0]
    /\ result = NoResult

\* run() has called reset() and is about to enter its loop
RunInit ==
    /\ engine \in {"astock", "generic"}
    /\ Reset
    /\ NoAnalyzer
    /\ NoSimulator
    /\ data \in Data
    /\ RunEntered

\* the loop takes the next bar: the price map is updated and, in the A-share engine,
\* update_t1 is called for every bar but the first
RunBar ==
    /\ pc = "bar"
    /\ prices' = Put(prices, RunCode, data[bar])
    /\ date' = bar
    /\ IF engine = "astock" /\ bar > 1
       THEN /\ positions' = update_t1_positions
            /\ today_buy' = EmptyDict
            /\ last' = Call("update_t1", "", 0, NoPercent, TRUE)
            /\ calls' = [calls EXCEPT !.update_t1 = @ + 1]
       ELSE UNCHANGED <<positions, today_buy, last, calls>>
    /\ pc' = "strategy"
    /\ UNCHANGED <<engine, cash, trades, data, bar, equity_curve, dates, signal, result,
                   analyzer, simulator>>

\* strategy_func is consulted
RunStrategy ==
    /\ pc = "strategy"
    /\ signal' \in Signals
    /\ calls' = [calls EXCEPT !.strategy_func = @ + 1]
    /\ pc' = "trade"
    /\ UNCHANGED <<engine, date, ledger, last, data, bar, prices, equity_curve, dates,
                   result, analyzer, simulator>>

\* the buy or sell call the signal leads to, with the fields it leaves
RunOrder(op, quantity, percent, o) ==
    /\ Become(o)
    /\ last' = Call(op, RunCode, quantity, percent, o.ret)
    /\ calls' = [calls EXCEPT !.orders = @ + 1]

\* the signal is executed
RunTrade ==
    /\ pc = "trade"
    /\ LET close == data[bar]
           buy_amount == cash \div 2
       IN IF engine = "astock"
          THEN /\ CASE signal = "BUY" ->
                        RunOrder("buy", 0, NoPercent,
                                 astock_buy(date, RunCode, close, 0, buy_amount))
                     [] signal = "SELL" ->
                        RunOrder("sell", 0, Half,
                                 astock_sell(date, RunCode, close, 0, Half))
                     [] signal = "SELL_ALL" ->
                        RunOrder("sell", SellAllQuantity, NoPercent,
                                 astock_sell(date, RunCode, close, SellAllQuantity,
                                             NoPercent))
                     [] OTHER -> UNCHANGED <<ledger, last, calls>>
               /\ pc' = "equity"
          ELSE CASE signal = "BUY" /\ engine_buy_divides_by_zero(RunCode, close, 0, buy_amount) ->
                    \/ /\ RunOrder("buy", 0, NoPercent,
                                    engine_buy_nan(RunCode, close, 0, buy_amount))
                       /\ pc' = "equity"
                    \/ /\ RunOrder("buy raises ZeroDivisionError", 0, NoPercent,
                                    engine_buy_raised(RunCode, close, 0, buy_amount))
                       /\ pc' = "raised"
                 [] signal = "BUY" /\ ~engine_buy_divides_by_zero(RunCode, close, 0, buy_amount) ->
                    /\ RunOrder("buy", 0, NoPercent,
                                engine_buy(date, RunCode, close, 0, buy_amount))
                    /\ pc' = "equity"
                 [] signal = "SELL" ->
                    /\ RunOrder("sell", 0, Half,
                                engine_sell(date, RunCode, close, 0, Half))
                    /\ pc' = "equity"
                 [] OTHER ->
                    /\ UNCHANGED <<ledger, last, calls>>
                    /\ pc' = "equity"
    /\ UNCHANGED <<engine, date, data, bar, prices, equity_curve, dates, signal, result,
                   analyzer, simulator>>

\* the equity of the bar is recorded and the loop goes on or ends
RunEquity ==
    /\ pc = "equity"
    /\ equity_curve' = Append(equity_curve, get_equity(prices))
    /\ dates' = Append(dates, bar)
    /\ IF bar < Len(data)
       THEN bar' = bar + 1 /\ pc' = "bar"
       ELSE bar' = bar /\ pc' = "final"
    /\ UNCHANGED <<engine, date, ledger, last, data, prices, signal, calls, result,
                   analyzer, simulator>>

\* after the loop: a position still held is sold at the last close, and the result
\* computed from the fields as they are then is returned
RunFinal ==
    /\ pc = "final"
    /\ LET final_price == data[Len(data)]
       IN IF RunCode \in DOMAIN positions
          THEN LET o == IF engine = "astock"
                        THEN astock_sell(date, RunCode, final_price, 0, NoPercent)
                        ELSE engine_sell(date, RunCode, final_price, 0, NoPercent)
               IN /\ Become(o)
                  /\ last' = Call("sell", RunCode, 0, NoPercent, o.ret)
          ELSE UNCHANGED <<ledger, last>>
    /\ result' = IF engine = "generic"
                 THEN engine_calculate_result(equity_curve, trades')
                 ELSE astock_calculate_result(equity_curve, trades', positions')
    /\ pc' = "done"
    /\ UNCHANGED <<engine, date, data, bar, prices, equity_curve, dates, signal, calls,
                   analyzer, simulator>>

RunNext == RunBar \/ RunStrategy \/ RunTrade \/ RunEquity \/ RunFinal

RunSpec == RunInit /\ [][RunNext]_vars

\* Close columns of an instrument that moves between 1.00, 10.00 and 13.00: sales
\* above and below the purchase price, by more and by less than the costs
MaxResultBars == 4
ResultData == UNION {[1..n -> {100, 1000, 1300}] : n \in 1..MaxResultBars}

\* run() on such data
ResultInit ==
    /\ engine \in {"astock", "generic"}
    /\ Reset
    /\ NoAnalyzer
    /\ NoSimulator
    /\ data \in ResultData
    /\ RunEntered

ResultSpec == ResultInit /\ [][RunNext]_vars

----------------------------------------------------------------------------
(* Properties of the ledger *)

IsAStock == engine = "astock"
IsGeneric == engine = "generic"
LastTrade == trades[Len(trades)]
\* the step is a buy / sell that returned True
BoughtNow == last'.op = "buy" /\ last'.ret /\ Len(trades') = Len(trades) + 1
SoldNow == last'.op = "sell" /\ last'.ret /\ Len(trades') = Len(trades) + 1

\* C1: after any sequence of buy, sell and update_t1 calls every position of the
\* A-share ledger satisfies 0 <= available <= quantity.
C1_AvailableWithinQuantity ==
    IsAStock =>
        \A code \in DOMAIN positions :
            /\ 0 <= positions[code].available
            /\ positions[code].available <= positions[code].quantity

\* C2: with positive prices and sizes the cash balance of either engine is never
\* negative.
C2_CashNeverNegative == cash >= 0

\* C3: a buy or sell of the A-share engine that returns False leaves cash, positions,
\* today_buy and trades exactly as they were.
C3_RejectionLeavesLedger ==
    [][(IsAStock /\ last'.op \in {"buy", "sell"} /\ ~last'.ret) => UNCHANGED ledger]_vars

\* a rejected call on a ledger that holds a position and a pending buy
C3_Witness ==
    /\ IsAStock
    /\ last.op \in {"buy", "sell"}
    /\ ~last.ret
    /\ DOMAIN positions # {}
    /\ DOMAIN today_buy # {}
    /\ trades # <<>>

RECURSIVE SumTotalCost(_)
SumTotalCost(ts) ==
    IF ts = <<>> THEN 0 ELSE ts[1].total_cost + SumTotalCost(Tail(ts))

\* the fees of a recorded trade are those of its side, computed on price * quantity
TradeCostsExact(t) ==
    LET gross == t.price * t.quantity
        commission == IF gross * commission_rate.n >= min_commission * commission_rate.d
                      THEN (gross * commission_rate.n) \div commission_rate.d
                      ELSE min_commission
        tax == IF t.action = "SELL"
               THEN (gross * stamp_duty_rate.n) \div stamp_duty_rate.d
               ELSE 0
    IN /\ t.amount = gross
       /\ t.commission = commission
       /\ t.stamp_duty = tax
       /\ t.total_cost = IF t.action = "BUY"
                         THEN gross + commission
                         ELSE -(gross - commission - tax)

\* C4: every recorded A-share trade moved the cash by gross + commission (buy) or
\* gross - commission - tax (sell), with commission = max(gross * commission_rate,
\* min_commission) and tax = gross * stamp_duty_rate on sells only; hence
\* cash = initial_capital - sum of total_cost over the trades.
C4_CashConservation ==
    IsAStock =>
        /\ \A i \in 1..Len(trades) : TradeCostsExact(trades[i])
        /\ cash = initial_capital - SumTotalCost(trades)

\* a buy above the commission floor and a sell at the floor have both been recorded
C4_Witness ==
    /\ IsAStock
    /\ \E i, j \in 1..Len(trades) :
         /\ trades[i].action = "BUY" /\ trades[i].commission > min_commission
         /\ trades[j].action = "SELL" /\ trades[j].commission = min_commission
                                     /\ trades[j].stamp_duty > 0

\* C5: a successful buy of the generic engine decreases cash by quantity * exec_price
\* plus the commission recorded on the appended Trade.
C5_GenericBuyDebitsCommission ==
    [][(IsGeneric /\ BoughtNow) =>
          LET t == LastTrade'
          IN cash' = cash - (t.quantity * t.price + t.commission)]_vars

\* C6: a successful A-share buy on an instrument already held increases quantity and
\* leaves the position's available quantity unchanged.
C6_BuyKeepsAvailable ==
    [][(IsAStock /\ BoughtNow /\ last'.code \in DOMAIN positions) =>
          LET c == last'.code
          IN /\ positions'[c].quantity = positions[c].quantity + LastTrade'.quantity
             /\ positions'[c].available = positions[c].available]_vars

\* C7: a buy of an instrument not held creates a position with available = 0, no sell
\* of that instrument succeeds before the next update_t1, and after that update_t1
\* the position's available equals its quantity.
C7_SettlementDelay ==
    [][IsAStock =>
          /\ (BoughtNow /\ last'.code \notin DOMAIN positions)
                => positions'[last'.code].available = 0
          /\ (last'.op = "sell" /\ last'.code \in DOMAIN positions
                /\ positions[last'.code].entry_date = date)
                => ~last'.ret
          /\ last'.op = "update_t1"
                => \A c \in DOMAIN positions :
                      positions[c].entry_date = date
                         => positions'[c].available = positions'[c].quantity]_vars

\* the sell call of the step names an explicit quantity for a held instrument
ExplicitSell ==
    /\ IsAStock
    /\ last'.op = "sell"
    /\ last'.percent.n = 0
    /\ last'.quantity > 0
    /\ last'.code \in DOMAIN positions

C9_SellReducesPosition ==
    [][(IsAStock /\ SoldNow) =>
          LET c == last'.code
              s == LastTrade'.quantity
              pos == positions[c]
          IN /\ c \notin DOMAIN positions' <=> pos.quantity - s = 0
             /\ c \in DOMAIN positions'
                   => /\ positions'[c].quantity = pos.quantity - s
                      /\ positions'[c].available = pos.available - s
                      /\ positions'[c].avg_cost = pos.avg_cost]_vars

\* the instrument of a trade record and the average cost of a position record
Instrument(t) == IF IsAStock THEN t.code ELSE t.symbol
AvgCost(pos) == IF IsAStock THEN pos.avg_cost ELSE pos.avg_price

\* the quantity held (0: not held) and the average cost of c after the first i
\* trades, recomputed from the trade records alone
RECURSIVE Replay(_, _)
Replay(c, i) ==
    IF i = 0 THEN [held |-> 0, avg |-> Whole(0)]
    ELSE LET t == trades[i]
             r == Replay(c, i - 1)
         IN IF Instrument(t) # c THEN r
            ELSE IF t.action = "BUY"
            THEN [held |-> r.held + t.quantity,
                  avg |-> IF r.held = 0
                          THEN Whole(t.price)
                          ELSE FracOver(FracPlus(FracTimes(r.avg, r.held),
                                                 t.price * t.quantity),
                                        r.held + t.quantity)]
            ELSE [held |-> Max(r.held - t.quantity, 0), avg |-> r.avg]
HeldAfter(c, i) == Replay(c, i).held

\* the trades of c recorded since its current position was opened
SinceOpened(c) ==
    LET flat == {i \in 0..Len(trades) : HeldAfter(c, i) = 0}
        opened == CHOOSE i \in flat : \A j \in flat : j <= i
    IN {i \in (opened + 1)..Len(trades) : Instrument(trades[i]) = c}
BuysSinceOpened(c) == {i \in SinceOpened(c) : trades[i].action = "BUY"}
SellsSinceOpened(c) == {i \in SinceOpened(c) : trades[i].action = "SELL"}

RECURSIVE SumValue(_)
SumValue(I) ==
    IF I = {} THEN 0
    ELSE LET i == CHOOSE x \in I : TRUE
         IN trades[i].price * trades[i].quantity + SumValue(I \ {i})
RECURSIVE SumQuantity(_)
SumQuantity(I) ==
    IF I = {} THEN 0
    ELSE LET i == CHOOSE x \in I : TRUE
         IN trades[i].quantity + SumQuantity(I \ {i})

\* sum(exec_price_i * qty_i) / sum(qty_i) over the buys since c was opened
AverageOfBuys(c) == Frac(SumValue(BuysSinceOpened(c)), SumQuantity(BuysSinceOpened(c)))

\* C10 as claimed: in both engines the average cost of every open position equals
\* sum(exec_price_i * qty_i) / sum(qty_i) over all buys since the position was
\* opened, whatever sells came in between.
C10_AverageOverAllBuys ==
    \A c \in DOMAIN positions : AvgCost(positions[c]) = AverageOfBuys(c)

\* C10 as amended: in both engines the average cost of an open position equals
\* sum(exec_price_i * qty_i) / sum(qty_i) over all buys since it was opened as long
\* as no sell of it came in between; in general it is the exec_price of the opening
\* buy, replaced at each later buy by
\* (avg_cost * quantity held + exec_price * qty) / (quantity held + qty), and no sell
\* changes it.
C10_AverageCostRecurrence ==
    \A c \in DOMAIN positions :
        /\ AvgCost(positions[c]) = Replay(c, Len(trades)).avg
        /\ SellsSinceOpened(c) = {} => AvgCost(positions[c]) = AverageOfBuys(c)

\* a position bought at one price, partly sold, and bought again at another price:
\* its average cost is no longer the average over all its buys
C10_Witness ==
    \E c \in DOMAIN positions :
        /\ SellsSinceOpened(c) # {}
        /\ Cardinality(BuysSinceOpened(c)) >= 2
        /\ LastTrade.action = "BUY"
        /\ AvgCost(positions[c]) # AverageOfBuys(c)

----------------------------------------------------------------------------
(* Properties of run() *)

\* run() has left its loop and made the final liquidation call
Returned == pc = "done"

\* C11: when run() of the A-share engine returns, no position remains open, whatever
\* the signals were (a BUY in the final period included).
C11_RunEndsFlat == (IsAStock /\ Returned) => DOMAIN positions = {}

\* the step executes the signal of a bar that has a previous bar, in the A-share engine
TradesAfterBar == IsAStock /\ pc = "trade" /\ pc' = "equity" /\ bar > 1
\* the close of the bar is at or beyond the limit band around the previous close
AtLimitUp == data[bar] >= Times(data[bar - 1], OnePlus(limit_up_ratio))
AtLimitDown == data[bar] <= Times(data[bar - 1], OnePlus(limit_down_ratio))

\* C12: an A-share buy quoted at or beyond the up-limit band given by limit_up_ratio
\* is rejected (returns False, no mutation), and a sell quoted at or beyond the
\* down-limit band given by limit_down_ratio is rejected.
C12_PriceLimitBlocks ==
    [][TradesAfterBar =>
          /\ (signal = "BUY" /\ AtLimitUp) => (~last'.ret /\ UNCHANGED ledger)
          /\ (signal \in {"SELL", "SELL_ALL"} /\ AtLimitDown)
                => (~last'.ret /\ UNCHANGED ledger)]_vars

----------------------------------------------------------------------------
(* Properties of the size handling *)

\* the step is a call of buy() of the A-share engine
AStockBuyCalled == IsAStock /\ last'.op = "buy"
\* the request names 1..99 shares and no amount
SubLotQuantity == last'.quantity \in 1..99 /\ last'.amount = 0
\* the request names a positive amount below the price of 100 shares (and no whole lot)
SubLotAmount ==
    /\ last'.quantity \in 0..99
    /\ last'.amount > 0
    /\ last'.amount < 100 * SizePrice

\* what one lot costs at SizePrice: exec_price * 100 plus the commission on it
OneLotCost ==
    LET gross == ((SizePrice * (slippage.d + slippage.n)) \div slippage.d) * 100
        fee == (gross * commission_rate.n) \div commission_rate.d
    IN gross + (IF fee >= min_commission THEN fee ELSE min_commission)

\* C13 as claimed: an A-share buy whose request rounds down to zero lots (a quantity
\* below 100, or an amount smaller than 100 * price) returns False and buys nothing.
C13_ZeroLotBuyRejected ==
    [][(AStockBuyCalled /\ (SubLotQuantity \/ SubLotAmount))
          => (~last'.ret /\ UNCHANGED ledger)]_vars

\* C13 as amended: an A-share buy of a quantity below 100 with no amount returns False
\* and buys nothing; a buy of a positive amount smaller than 100 * price is raised to
\* one lot: it buys exactly 100 shares when the cash covers them with the commission,
\* and returns False, buying nothing, otherwise.
C13_ZeroLotQuantityRejected ==
    [][AStockBuyCalled =>
          /\ SubLotQuantity => (~last'.ret /\ UNCHANGED ledger)
          /\ (SubLotAmount /\ OneLotCost <= cash)
                => /\ last'.ret
                   /\ trades' = Append(trades, LastTrade')
                   /\ LastTrade'.action = "BUY" /\ LastTrade'.quantity = 100
                   /\ cash' = cash - OneLotCost
          /\ (SubLotAmount /\ OneLotCost > cash)
                => (~last'.ret /\ UNCHANGED ledger)]_vars

\* a buy of an amount below the price of one lot has bought one lot
C13_Witness ==
    /\ IsAStock
    /\ last.op = "buy" /\ last.ret
    /\ last.quantity = 0 /\ last.amount \in 1..(100 * SizePrice - 1)
    /\ LastTrade.quantity = 100

\* the buy request of the step has no positive size: a negative quantity or amount, no
\* size at all, or a size that resolves to 0 units (below one lot in the A-share
\* engine, below the price of one share in the generic engine)
InvalidBuySize ==
    \/ last'.quantity < 0
    \/ last'.amount < 0
    \/ last'.quantity = 0 /\ last'.amount = 0
    \/ IsAStock /\ (SubLotQuantity \/ SubLotAmount)
    \/ /\ IsGeneric
       /\ last'.quantity = 0
       /\ last'.amount > 0
       /\ last'.amount * engine_slippage.d
             < SizePrice * (engine_slippage.d + engine_slippage.n)

\* the sell request of the step has no positive size: a negative quantity, or a percent
\* that resolves to 0 units of the position
InvalidSellSize ==
    \/ last'.quantity < 0
    \/ /\ last'.percent.n # 0
       /\ last'.code \in DOMAIN positions
       /\ LET pos == positions[last'.code]
              held == IF IsAStock THEN pos.available ELSE pos.quantity
          IN (held * last'.percent.n) \div last'.percent.d = 0

\* C14: in both engines a buy or sell whose size is zero or negative is rejected before
\* any mutation (it returns False, appends no Trade and leaves cash and positions
\* unchanged), so no Trade with quantity <= 0 is ever recorded and no position of the
\* ledger ever has quantity <= 0.
C14_NonPositiveSizeRejected ==
    [][/\ (last'.op \in {"buy", "buy raises ZeroDivisionError"} /\ InvalidBuySize)
            => (last'.op = "buy" /\ ~last'.ret /\ UNCHANGED ledger)
       /\ (last'.op = "sell" /\ InvalidSellSize)
            => (~last'.ret /\ UNCHANGED ledger)
       /\ \A i \in 1..Len(trades') : trades'[i].quantity > 0
       /\ \A code \in DOMAIN positions' : positions'[code].quantity > 0]_vars

----------------------------------------------------------------------------
(* Properties of the trade list *)

\* C15: between resets the trade list of the A-share engine is append-only: a buy or
\* sell that returns True appends exactly one Trade, a call that returns False appends
\* none, and the Trades recorded before are never modified, reordered or removed.
C15_TradesAppendOnly ==
    [][IsAStock =>
          /\ (last'.op \in {"buy", "sell"} /\ last'.ret)
                => /\ Len(trades') = Len(trades) + 1
                   /\ SubSeq(trades', 1, Len(trades)) = trades
                   /\ trades'[Len(trades')].action = (IF last'.op = "buy" THEN "BUY"
                                                      ELSE "SELL")
                   /\ trades'[Len(trades')].code = last'.code
          /\ (last'.op \in {"buy", "sell"} /\ ~last'.ret) => trades' = trades
          /\ last'.op = "update_t1" => trades' = trades]_vars

\* a third trade has been appended to a list that holds a buy and a sell
C15_Witness ==
    /\ IsAStock
    /\ last.op \in {"buy", "sell"} /\ last.ret
    /\ Len(trades) = 3
    /\ \E i, j \in 1..2 : trades[i].action = "BUY" /\ trades[j].action = "SELL"

----------------------------------------------------------------------------
(* Properties of the equity curve *)

\* the bars whose loop body has been completed
BarsDone == IF pc \in {"bar", "strategy", "trade", "equity"} THEN bar - 1 ELSE Len(data)

\* cash plus quantity * close over the held instruments that have a price in map p
MarkToMarket(p, close) ==
    cash + (IF RunCode \in DOMAIN positions /\ RunCode \in DOMAIN p
            THEN positions[RunCode].quantity * close
            ELSE 0)

\* C16: during run() of the A-share engine exactly one equity value is appended per
\* visited period, in period order and after that period's trade, equal to cash +
\* sum(quantity * that period's close) over the held instruments present in the price
\* map (an instrument missing from the map contributes 0); when run() returns,
\* len(equity_curve) = len(dates) = number of bars.
C16_EquityPerPeriod ==
    [][IsAStock =>
          /\ Len(equity_curve') = BarsDone'
          /\ Len(dates') = BarsDone'
          /\ \A i \in 1..Len(dates') : dates'[i] = i
          /\ Returned' => Len(equity_curve') = Len(data) /\ Len(dates') = Len(data)
          /\ equity_curve' # equity_curve
                => /\ pc = "equity"
                   /\ calls.strategy_func = bar
                   /\ calls.orders <= bar
                   /\ equity_curve' = Append(equity_curve, MarkToMarket(prices, data[bar]))
                   /\ dates' = Append(dates, bar)
                   /\ UNCHANGED ledger
          /\ get_equity(EmptyDict) = MarkToMarket(EmptyDict, data[bar])]_vars

\* the loop has ended with a position held: the last equity value counts it at the close
C16_Witness ==
    /\ IsAStock
    /\ pc = "final"
    /\ Len(data) >= 2
    /\ Len(equity_curve) = Len(data)
    /\ RunCode \in DOMAIN positions
    /\ equity_curve[Len(data)] = cash + positions[RunCode].quantity * data[Len(data)]
    /\ equity_curve[Len(data)] > cash

----------------------------------------------------------------------------
(* Properties of the settlement schedule *)

\* how many update_t1 calls run() must have made: one for every bar entered but the first
SettlementsDue ==
    IF pc = "bar" THEN (IF bar >= 2 THEN bar - 2 ELSE 0)
    ELSE IF pc \in {"strategy", "trade", "equity"} THEN bar - 1
    ELSE Len(data) - 1

\* the step is an update_t1 call of run()
SettledNow == calls'.update_t1 = calls.update_t1 + 1

\* C17: in run() of the A-share engine update_t1 runs exactly once for every period
\* i > 0, before the strategy is consulted and before any buy or sell of that period,
\* and not for i = 0; update_t1 adds each pending quantity to the position's available
\* and clears the pending map, so a second update_t1 with no buy in between changes
\* nothing.
C17_SettlementOncePerPeriod ==
    [][IsAStock =>
          /\ calls'.update_t1 = SettlementsDue'
          /\ calls'.update_t1 \in {calls.update_t1, calls.update_t1 + 1}
          /\ SettledNow
                => /\ bar > 1
                   /\ pc = "bar" /\ pc' = "strategy"
                   /\ calls.strategy_func = bar - 1
                   /\ calls.orders = calls'.orders
                   /\ DOMAIN positions' = DOMAIN positions
                   /\ \A c \in DOMAIN positions :
                         positions'[c] =
                            [positions[c] EXCEPT
                               !.available = @ + (IF c \in DOMAIN today_buy
                                                  THEN today_buy[c] ELSE 0)]
                   /\ today_buy' = EmptyDict
                   /\ UNCHANGED <<cash, trades>>
          /\ (SettledNow /\ ~(last.op = "buy" /\ last.ret)) => UNCHANGED ledger
          /\ (pc = "bar" /\ bar = 1) => (~SettledNow /\ UNCHANGED ledger)]_vars

\* the second bar has settled the shares bought in the first, and the third bar has
\* settled again with no buy in between
C17_Witness ==
    /\ IsAStock
    /\ pc = "strategy"
    /\ bar = 3
    /\ calls.update_t1 = 2
    /\ last.op = "update_t1"
    /\ RunCode \in DOMAIN positions
    /\ positions[RunCode].available = positions[RunCode].quantity
    /\ trades # <<>>

----------------------------------------------------------------------------
(* Properties of the driver loop *)

\* how many times the strategy must have been consulted: once for every bar entered
ConsultationsDue ==
    IF pc \in {"bar", "strategy"} THEN bar - 1
    ELSE IF pc \in {"trade", "equity", "raised"} THEN bar
    ELSE Len(data)

\* the step is a buy or sell call of the loop that returned False
RejectedNow == calls'.orders = calls.orders + 1 /\ ~last'.ret

\* C18: for every signal sequence run() of either engine visits every bar exactly once
\* in order, consults the strategy exactly once per bar and issues at most one buy or
\* sell per bar; a rejected or zero-size buy or sell never raises or stops the loop,
\* and the next bar is processed with the ledger exactly as the rejected call found it.
C18_LoopVisitsEveryBar ==
    [][/\ pc' # "raised"
       /\ calls'.strategy_func = ConsultationsDue'
       /\ calls'.orders <= calls'.strategy_func
       /\ calls'.orders \in {calls.orders, calls.orders + 1}
       /\ calls'.orders # calls.orders => pc = "trade"
       /\ Len(dates') = BarsDone' /\ \A i \in 1..Len(dates') : dates'[i] = i
       /\ bar' \in {bar, bar + 1} /\ bar' <= Len(data)
       /\ RejectedNow => (UNCHANGED ledger /\ pc' = "equity")
       /\ pc = "equity" => UNCHANGED ledger]_vars

----------------------------------------------------------------------------
(* C19: selling a position in full and buying it back at the same price *)

\* a step that buys back the position the last call sold in full
Rebuys == last'.op = "rebuy"
\* the quantity a buy request for q shares is rounded down to
WholeLots(q) == (q \div 100) * 100
\* commission and stamp duty recorded on the sell and on the buy that follows it
RecordedFees == LET n == Len(trades') IN trades'[n - 1].commission + trades'[n - 1].stamp_duty + trades'[n].commission + trades'[n].stamp_duty
\* the cash is enough for the position at the price of the sale, commission included
SufficientCash == cash >= last.price * last.held_before + calculate_commission(last.price * last.held_before)

\* C19 as the specification states it: with slippage 0 and sufficient cash,
\* selling a position in full at price p and buying back the same quantity at p
\* leaves cash_after = cash_before - (commissions and taxes recorded on the two
\* trades), and the position bought back has the quantity held before.
C19_RoundTripCostsOnlyFees == [][(Rebuys /\ SufficientCash) => /\ last'.ret /\ cash' = last.cash_before - RecordedFees /\ RoundCode \in DOMAIN positions' /\ positions'[RoundCode].quantity = last.held_before]_vars

\* C19 as the code has it: the quantity bought back is the quantity held before
\* rounded down to whole lots r, the buy is rejected when r = 0 or the cash does
\* not cover it, and otherwise cash_after = cash_before - fees + p * (sold - r),
\* where sold is the quantity the sell trade records; so when the position is a
\* whole number of lots and the sell records exactly the quantity held,
\* cash_after = cash_before - fees and the quantity is the one held before.
C19_RoundTripInWholeLots == [][Rebuys => LET q == last.held_before r == WholeLots(q) sold == trades[Len(trades)].quantity IN IF last'.ret THEN /\ r > 0 /\ Len(trades') = Len(trades) + 1 /\ trades'[Len(trades')].quantity = r /\ trades'[Len(trades')].price = last.price /\ trades[Len(trades)].price = last.price /\ positions'[RoundCode].quantity = r /\ cash' = last.cash_before - RecordedFees + last.price * (sold - r) /\ ((sold = q /\ r = q) => (cash' = last.cash_before - RecordedFees /\ positions'[RoundCode].quantity = q)) ELSE /\ (r = 0 \/ cash < last.price * r + calculate_commission(last.price * r)) /\ cash' = cash /\ positions' = positions /\ trades' = trades]_vars

\* a position of whole lots was sold in full and bought back
C19_Witness == /\ last.op = "rebuy" /\ last.ret /\ RoundCode \in DOMAIN positions /\ positions[RoundCode].quantity = last.quantity /\ last.quantity % 100 = 0 /\ Len(trades) >= 3 /\ trades[Len(trades) - 1].action = "SELL" /\ trades[Len(trades) - 1].quantity = last.quantity

----------------------------------------------------------------------------
(* PerformanceAnalyzer: the metrics of an equity curve *)

MaxLen == 5
\* equity values of one period
EquityValues == {98000, 100000, 102000, 105000}
\* the equity curves the analyzer is constructed with (dropna() leaves no gap)
EquityCurves == UNION {[1..n -> EquityValues] : n \in 0..MaxLen}


\* cumulative.expanding().max() at period i
RECURSIVE running_max(_, _)
running_max(s, i) == IF i = 1 THEN s[1] ELSE Max(running_max(s, i - 1), s[i])

\* cumulative - running_max at period i
drawdown(s, i) == s[i] - running_max(s, i)

\* (cumulative / running_max - 1) * 100 at period i
drawdown_pct(s, i) == Frac((s[i] - running_max(s, i)) * 100, running_max(s, i))

\* drawdown.min() over the periods 1 .. i; the minimum of an empty series is nan
RECURSIVE drawdown_min(_, _)
drawdown_min(s, i) ==
    IF i = 0 THEN NaN
    ELSE IF i = 1 THEN Whole(drawdown(s, 1))
    ELSE LET m == drawdown_min(s, i - 1)
             x == Whole(drawdown(s, i))
         IN IF FracLess(x, m) THEN x ELSE m

\* drawdown_pct.min() over the periods 1 .. i
RECURSIVE drawdown_pct_min(_, _)
drawdown_pct_min(s, i) ==
    IF i = 0 THEN NaN
    ELSE IF i = 1 THEN drawdown_pct(s, 1)
    ELSE LET m == drawdown_pct_min(s, i - 1)
             x == drawdown_pct(s, i)
         IN IF FracLess(x, m) THEN x ELSE m

\* the variables of the duration loop after its first i iterations
RECURSIVE duration_loop(_, _)
duration_loop(s, i) ==
    IF i = 0 THEN [dd_duration |-> 0, max_duration |-> 0, in_drawdown |-> FALSE]
    ELSE LET v == duration_loop(s, i - 1)
         IN IF drawdown(s, i) < 0
            THEN [dd_duration |-> (IF v.in_drawdown THEN v.dd_duration ELSE 0) + 1,
                  max_duration |-> v.max_duration,
                  in_drawdown |-> TRUE]
            ELSE IF v.in_drawdown
            THEN [dd_duration |-> v.dd_duration,
                  max_duration |-> Max(v.max_duration, v.dd_duration),
                  in_drawdown |-> FALSE]
            ELSE v

\* mutant: the drawdown still open when the loop ends is not counted
max_duration_of_closed_drawdowns(v) == v.max_duration

\* max_duration after the statement that follows the loop
max_duration(v) == Max(v.max_duration, v.dd_duration)

calculate_max_drawdown(s) ==
    [max_dd |-> FracAbs(drawdown_min(s, Len(s))),
     max_dd_pct |-> FracAbs(drawdown_pct_min(s, Len(s))),
     duration |-> max_duration(duration_loop(s, Len(s)))]

\* self.returns = equity_curve.pct_change().dropna(): the change of each period
\* relative to the period before it
returns(s) == [i \in 1..(IF Len(s) = 0 THEN 0 ELSE Len(s) - 1) |-> Frac(s[i + 1] - s[i], s[i])]

\* the values of r that are below zero, in order
RECURSIVE downside(_)
downside(r) ==
    IF r = <<>> THEN <<>>
    ELSE IF r[1].n < 0 THEN <<r[1]>> \o downside(Tail(r)) ELSE downside(Tail(r))

\* Series.std(), the sample standard deviation (ddof = 1), as far as the code looks
\* at it: nan for fewer than two values, 0 when all values are equal, positive otherwise
std(r) ==
    IF Len(r) < 2 THEN "nan"
    ELSE IF \A i \in 1..Len(r) : r[i] = r[1] THEN "zero"
    ELSE "positive"

\* a number divided by a standard deviation that passed the == 0 test
quotient(sd) == IF sd = "nan" THEN "nan" ELSE "quotient"

\* the value returned is 0.0 ("zero"), nan, or the annualised quotient
calculate_sharpe_ratio(s) ==
    LET r == returns(s)
    IN IF Len(r) = 0 \/ std(r) = "zero" THEN "zero"
       ELSE quotient(std(r))

calculate_sortino_ratio(s) ==
    LET r == returns(s)
        downside_returns == downside(r)
    IN IF Len(r) = 0 THEN "zero"
       ELSE IF Len(downside_returns) = 0 \/ std(downside_returns) = "zero" THEN "zero"
       ELSE quotient(std(downside_returns))

MaxPnls == 3
\* the realized P&L of a closed trade
PnlValues == {-200, 0, 300, 500}
\* a trade object with a pnl attribute, or one without (as the engines' Trade records)
AnalyzerTrades == {[pnl |-> v] : v \in PnlValues} \cup {[symbol |-> "A"]}
TradeLists == UNION {[1..n -> AnalyzerTrades] : n \in 0..MaxPnls}

\* float('inf')
Inf == [n |-> 1, d |-> 0]

RECURSIVE SeqSum(_)
SeqSum(q) == IF q = <<>> THEN 0 ELSE q[1] + SeqSum(Tail(q))
RECURSIVE SeqMax(_)
SeqMax(q) == IF Len(q) = 1 THEN q[1] ELSE Max(q[1], SeqMax(Tail(q)))
RECURSIVE SeqMin(_)
SeqMin(q) == IF Len(q) = 1 THEN q[1] ELSE Min(q[1], SeqMin(Tail(q)))

\* hasattr(trade, 'pnl')
has_pnl(trade) == "pnl" \in DOMAIN trade

\* the trade fields of a new PerformanceMetrics()
PerformanceMetrics ==
    [total_trades |-> 0, winning_trades |-> 0, losing_trades |-> 0,
     win_rate |-> Whole(0), avg_win |-> Whole(0), largest_win |-> 0,
     avg_loss |-> Whole(0), largest_loss |-> 0, profit_factor |-> Whole(0)]

\* the list winning_trades: the positive P&Ls, in order
winning_pnls(ts) ==
    LET won == SelectSeq(ts, LAMBDA t : has_pnl(t) /\ t.pnl > 0)
    IN [i \in 1..Len(won) |-> won[i].pnl]

\* the list losing_trades: the negative P&Ls, in order
losing_pnls(ts) ==
    LET lost == SelectSeq(ts, LAMBDA t : has_pnl(t) /\ t.pnl < 0)
    IN [i \in 1..Len(lost) |-> lost[i].pnl]

\* _calculate_trade_metrics(metrics) on a new PerformanceMetrics()
calculate_trade_metrics(ts) ==
    IF ts = <<>> THEN PerformanceMetrics
    ELSE LET winning_trades == winning_pnls(ts)
             losing_trades == losing_pnls(ts)
             gross_profit == SeqSum(winning_trades)
             gross_loss == Abs(SeqSum(losing_trades))
         IN [total_trades |-> Len(ts),
             winning_trades |-> Len(winning_trades),
             losing_trades |-> Len(losing_trades),
             win_rate |-> Frac(Len(winning_trades) * 100, Len(ts)),
             avg_win |-> IF winning_trades = <<>> THEN Whole(0)
                         ELSE Frac(SeqSum(winning_trades), Len(winning_trades)),
             largest_win |-> IF winning_trades = <<>> THEN 0 ELSE SeqMax(winning_trades),
             avg_loss |-> IF losing_trades = <<>> THEN Whole(0)
                          ELSE Frac(SeqSum(losing_trades), Len(losing_trades)),
             largest_loss |-> IF losing_trades = <<>> THEN 0 ELSE SeqMin(losing_trades),
             profit_factor |-> IF gross_loss > 0 THEN Frac(gross_profit, gross_loss)
                               ELSE IF gross_profit > 0 THEN Inf
                               ELSE Whole(0)]

\* the analyzer is constructed with an equity curve, or with the curve of the
\* documented scenario and a list of trades
AnalyzerInit ==
    /\ engine = "astock"
    /\ Reset
    /\ NoRun
    /\ \/ series \in EquityCurves /\ analyzer_trades = <<>>
       \/ series = <<100000, 105000, 98000, 102000>> /\ analyzer_trades \in TradeLists
    /\ metrics = [method |-> "None"]
    /\ NoSimulator

Returns(method, value) ==
    /\ metrics' = [method |-> method, result |-> value]
    /\ UNCHANGED <<engine, date, cash, positions, trades, today_buy, last, driver, series, analyzer_trades, simulator>>

CalculateMaxDrawdown == Returns("calculate_max_drawdown", calculate_max_drawdown(series))

CalculateSharpeRatio == Returns("calculate_sharpe_ratio", calculate_sharpe_ratio(series))

CalculateSortinoRatio == Returns("calculate_sortino_ratio", calculate_sortino_ratio(series))

CalculateTradeMetrics == Returns("_calculate_trade_metrics", calculate_trade_metrics(analyzer_trades))

\* calculate_omega_ratio(): 0.0, inf, or gains / losses
calculate_omega_ratio(s) ==
    LET r == returns(s)
    IN IF Len(r) = 0 THEN "zero"
       ELSE IF \A i \in 1..Len(r) : r[i].n >= 0
       THEN (IF \E i \in 1..Len(r) : r[i].n > 0 THEN "inf" ELSE "zero")
       ELSE "quotient"

\* calculate_all(); an empty equity curve has no iloc[-1]. The annualised figures
\* (which depend on the dates of the index) and the quantile, skewness and kurtosis
\* statistics are left out of the record; the Calmar ratio, whose numerator is one
\* of them, is 0 or a quotient
calculate_all(s, ts) ==
    IF s = <<>> THEN [raised |-> "IndexError"]
    ELSE LET dd == calculate_max_drawdown(s)
         IN [raised |-> "None",
             total_return |-> s[Len(s)] - s[1],
             total_return_pct |-> Frac((s[Len(s)] - s[1]) * 100, s[1]),
             volatility |-> std(returns(s)),
             max_drawdown |-> dd.max_dd,
             max_drawdown_pct |-> dd.max_dd_pct,
             max_drawdown_duration |-> dd.duration,
             sharpe_ratio |-> calculate_sharpe_ratio(s),
             sortino_ratio |-> calculate_sortino_ratio(s),
             calmar_ratio |-> IF dd.max_dd_pct # Whole(0) THEN "quotient" ELSE "zero",
             trades |-> IF ts # <<>> THEN calculate_trade_metrics(ts) ELSE PerformanceMetrics,
             omega_ratio |-> calculate_omega_ratio(s)]

CalculateAll == Returns("calculate_all", calculate_all(series, analyzer_trades))

AnalyzerNext == CalculateMaxDrawdown \/ CalculateSharpeRatio \/ CalculateSortinoRatio \/ CalculateTradeMetrics \/ CalculateAll

AnalyzerSpec == AnalyzerInit /\ [][AnalyzerNext]_vars

----------------------------------------------------------------------------
(* C20: the drawdown duration is the longest run of periods below the running maximum *)

\* period i of the curve is strictly below the highest equity of the periods up to it
BelowPeak(s, i) == \E j \in 1..i : s[j] > s[i]
\* the lengths of the contiguous runs of periods below the peak
RunLengths(s) == {j - i + 1 : <<i, j>> \in {w \in (1..Len(s)) \X (1..Len(s)) : w[1] <= w[2] /\ \A k \in w[1]..w[2] : BelowPeak(s, k)}}
LongestRunBelowPeak(s) == LET L == RunLengths(s) \cup {0} IN CHOOSE m \in L : \A x \in L : x <= m
ScenarioCurve == <<100000, 105000, 98000, 102000>>
DrawdownComputed == metrics.method = "calculate_max_drawdown"

\* C20: for every equity curve calculate_max_drawdown returns as duration the
\* length of the longest contiguous run of periods whose equity is strictly below
\* the running maximum, a run still open at the end counting in full; the curve
\* [100000, 105000, 98000, 102000] gives max drawdown 7000 and duration 2.
C20_DrawdownDuration == DrawdownComputed => /\ metrics.result.duration = LongestRunBelowPeak(series) /\ (series = ScenarioCurve => metrics.result.max_dd = Whole(7000) /\ metrics.result.duration = 2)

\* the scenario curve, whose drawdown is still open at the end, has been measured
C20_Witness == DrawdownComputed /\ series = ScenarioCurve /\ metrics.result.duration = 2 /\ BelowPeak(series, Len(series))

----------------------------------------------------------------------------
(* C21: Sharpe and Sortino ratios of return series without a spread *)

SharpeComputed == metrics.method = "calculate_sharpe_ratio"
SortinoComputed == metrics.method = "calculate_sortino_ratio"
\* two returns or more, all of them equal
ZeroVariance(r) == Len(r) >= 2 /\ \A i \in 1..Len(r) : r[i] = r[1]
NoNegativeReturn(r) == \A i \in 1..Len(r) : r[i].n >= 0

\* C21: calculate_sharpe_ratio returns exactly 0 when there are fewer than two
\* returns (an equity curve of 1 or 2 points) or the returns have zero standard
\* deviation, never an undefined value; calculate_sortino_ratio returns exactly
\* 0 when the returns have zero variance or none of them is negative.
C21_RatiosZeroWithoutSpread == ((SharpeComputed /\ (Len(returns(series)) < 2 \/ ZeroVariance(returns(series)))) => metrics.result = "zero") /\ ((SortinoComputed /\ (ZeroVariance(returns(series)) \/ NoNegativeReturn(returns(series)))) => metrics.result = "zero")

----------------------------------------------------------------------------
(* C22: how the analyzer counts winning and losing trades *)

TradeMetricsComputed == metrics.method = "_calculate_trade_metrics"
\* how many trades of the list have a P&L for which Test holds
CountPnl(Test(_)) == Cardinality({i \in 1..Len(analyzer_trades) : has_pnl(analyzer_trades[i]) /\ Test(analyzer_trades[i].pnl)})
Wins == CountPnl(LAMBDA p : p > 0)
NonWins == CountPnl(LAMBDA p : p <= 0)

\* C22: every trade with realized P&L > 0 is counted as winning, every trade
\* with P&L <= 0 (exactly 0 included) as losing, and the win rate is
\* wins / (wins + losses).
C22_NonPositiveCountsAsLoss == (TradeMetricsComputed /\ analyzer_trades # <<>>) => /\ metrics.result.winning_trades = Wins /\ metrics.result.losing_trades = NonWins /\ (Wins + NonWins > 0 => metrics.result.win_rate = Frac(Wins * 100, Wins + NonWins))

----------------------------------------------------------------------------
(* Properties of the result run() returns *)

\* run() has returned a result record
ResultReturned == result.returned /\ ~result.none
\* the sums of the profits and of the losses the result was computed from
SumOfWins == FracTimes(IF IsGeneric THEN result.avg_win ELSE result.avg_profit, result.winning_trades)
SumOfLosses == FracTimes(result.avg_loss, result.losing_trades)

\* C23: every profit factor the program reports is sum(wins) / sum(|losses|) when
\* there are losses, +infinity when there are wins and no losses, and 0 when there
\* are neither.
C23_ProfitFactor ==
    ResultReturned =>
        /\ (result.losing_trades > 0 /\ SumOfLosses.n > 0) =>
               result.profit_factor = FracQuot(SumOfWins, SumOfLosses)
        /\ (result.winning_trades > 0 /\ result.losing_trades = 0) =>
               result.profit_factor = Inf
        /\ (result.winning_trades = 0 /\ result.losing_trades = 0) =>
               result.profit_factor = Whole(0)

\* the indices of the SELL trades
SellIndices == {i \in 1..Len(trades) : trades[i].action = "SELL"}
\* the P&L a sale realizes against the quantity-weighted average cost the
\* instrument had when it was sold, net of the commission and tax of the sale
RealizedPnl(i) ==
    LET t == trades[i]
        avg == Replay(Instrument(t), i - 1).avg
    IN Frac((t.price * avg.d - avg.n) * t.quantity - (t.commission + t.stamp_duty) * avg.d, avg.d)
WinningSells == {i \in SellIndices : RealizedPnl(i).n > 0}
LosingSells == {i \in SellIndices : RealizedPnl(i).n <= 0}
RECURSIVE SumRealizedPnl(_)
SumRealizedPnl(I) ==
    IF I = {} THEN Whole(0)
    ELSE LET i == CHOOSE x \in I : TRUE
         IN FracAdd(RealizedPnl(i), SumRealizedPnl(I \ {i}))

\* C24: in AStockBacktestEngine.calculate_result each SELL trade is paired and
\* classified, and its realized P&L is computed against the instrument's
\* quantity-weighted average cost as it stood at the time of that sale.
C24_SellsAgainstAverageCost ==
    (ResultReturned /\ IsAStock) =>
        /\ result.winning_trades = Cardinality(WinningSells)
        /\ result.losing_trades = Cardinality(LosingSells)
        /\ SumOfWins = SumRealizedPnl(WinningSells)
        /\ SumOfLosses = FracAbs(SumRealizedPnl(LosingSells))

----------------------------------------------------------------------------
(* C25: configurations a constructor has to refuse *)

NegativeCommission == engine \in {"astock_negative_commission", "generic_negative_commission"}

\* C25: constructing an engine with an invalid configuration such as a negative
\* commission rate fails at construction time: no engine instance with a negative
\* commission rate can execute trades.
C25_NegativeCommissionNeverTrades == NegativeCommission => trades = <<>>

----------------------------------------------------------------------------
(* C26: the analyzer on degenerate input *)

AllComputed == metrics.method = "calculate_all"

\* C26: for an empty trade list and a single-period equity curve calculate_all
\* completes and returns the zero/neutral value for every metric it reports
\* (volatility, Sharpe, Sortino, Calmar, drawdown, trade statistics).
C26_DegenerateInputIsNeutral ==
    (AllComputed /\ Len(series) = 1 /\ analyzer_trades = <<>>) =>
        /\ metrics.result.raised = "None"
        /\ metrics.result.volatility = "zero"
        /\ metrics.result.sharpe_ratio = "zero"
        /\ metrics.result.sortino_ratio = "zero"
        /\ metrics.result.calmar_ratio = "zero"
        /\ metrics.result.max_drawdown = Whole(0)
        /\ metrics.result.max_drawdown_pct = Whole(0)
        /\ metrics.result.max_drawdown_duration = 0
        /\ metrics.result.trades = PerformanceMetrics

\* run() takes its last step with a position still open
FinalLiquidation == pc = "final" /\ RunCode \in DOMAIN positions

\* C27: whenever a position is still open after the last period, the
\* final_capital run() reports is the cash balance after the forced final
\* liquidation (net of that sale's slippage, commission and tax), so that the
\* total return does not depend on unrealized P&L.
C27_FinalCapitalIsCash == [][FinalLiquidation => (result'.final_capital = cash' /\ result'.total_return = cash' - (IF IsGeneric THEN engine_initial_capital ELSE initial_capital))]_vars

\* C28: in AStockBacktestEngine.calculate_result a SELL counts as winning or losing
\* in a streak exactly when it is counted in winning_trades or losing_trades, so
\* max_consecutive_wins <= winning_trades and max_consecutive_losses <=
\* losing_trades.
C28_StreaksWithinCounts ==
    (ResultReturned /\ IsAStock) =>
        /\ result.max_consecutive_wins <= result.winning_trades
        /\ result.max_consecutive_losses <= result.losing_trades

----------------------------------------------------------------------------
(* C29: shares sold and shares bought *)

TradesOf(c, action) == {i \in 1..Len(trades) : trades[i].code = c /\ trades[i].action = action}
TradedCodes == {trades[i].code : i \in 1..Len(trades)}

\* C29: after any sequence of buy, sell and update_t1 calls of the A-share engine,
\* for each instrument the total quantity over the recorded SELL trades never
\* exceeds the total quantity over the recorded BUY trades: no sell disposes of
\* more shares than the position holds.
C29_SharesConserved ==
    IsAStock =>
        \A c \in TradedCodes : SumQuantity(TradesOf(c, "SELL")) <= SumQuantity(TradesOf(c, "BUY"))

----------------------------------------------------------------------------
(* TradingSimulator: orders and their execution (src/execution/simulator.py)

   The simulator keeps its own cash and positions; a position is a quantity
   and an average price.  An order id is the text "ORD_" followed by the
   counter in six digits, a different text for every counter value: the model
   keeps the counter value as the id.  Timestamps, notes and order types are
   left out, they are stored and never read by the calls modelled here. *)

MaxOrders == 3

\* the constructor's arguments: 3000.00 of capital, rates of one tenth
simulator_initial_capital == 300000
simulator_commission == [n |-> 1, d |-> 10]
simulator_slippage == [n |-> 1, d |-> 10]
\* the stamp duty rate written in execute_order
simulator_stamp_duty == [n |-> 1, d |-> 1000]

SimulatorSymbols == {"A"}
SimulatorActions == {"BUY", "SELL"}
SimulatorQuantities == {200, -100}
SimulatorPrices == {1000}

\* Order(...) as create_order builds it: status PENDING, nothing filled
Order(order_id, symbol, action, quantity) ==
    [order_id |-> order_id, symbol |-> symbol, action |-> action, quantity |-> quantity,
     status |-> "PENDING", filled_price |-> 0, filled_quantity |-> 0]

SimulatorPosition(quantity, avg_price) == [quantity |-> quantity, avg_price |-> avg_price]

\* what a call of execute_order leaves behind: the value returned or the
\* exception raised, and the fields the call may have written
Executed(ret, raised, c, ps, order, th) ==
    [ret |-> ret, raised |-> raised, cash |-> c, positions |-> ps, order |-> order,
     trade_history |-> th]

\* execute_order(order, current_price) below its test of the status, on a
\* simulator with cash c, positions ps and trade history th
execute_pending(order, current_price, c, ps, th) ==
    LET exec_price ==
            IF order.action = "BUY"
            THEN Times(current_price, [n |-> simulator_slippage.d + simulator_slippage.n, d |-> simulator_slippage.d])
            ELSE Times(current_price, [n |-> simulator_slippage.d - simulator_slippage.n, d |-> simulator_slippage.d])
        total_cost == order.quantity * exec_price
        rejected == Executed(FALSE, "None", c, ps, [order EXCEPT !.status = "REJECTED"], th)
        filled(c2, ps2, commission_cost) ==
            Executed(TRUE, "None", c2, ps2,
                     [order EXCEPT !.status = "FILLED", !.filled_price = exec_price,
                                   !.filled_quantity = order.quantity],
                     Append(th, [order_id |-> order.order_id, symbol |-> order.symbol,
                                 action |-> order.action, quantity |-> order.quantity,
                                 price |-> exec_price, commission |-> commission_cost]))
    IN  IF order.action = "BUY"
        THEN LET commission_cost == Times(total_cost, simulator_commission)
                 c2 == c - (total_cost + commission_cost)
             IN  IF total_cost + commission_cost > c THEN rejected
                 ELSE IF order.symbol \in DOMAIN ps
                 THEN LET pos == ps[order.symbol]
                          total_value == FracPlus(FracTimes(pos.avg_price, pos.quantity), exec_price * order.quantity)
                          quantity == pos.quantity + order.quantity
                      IN  IF quantity = 0
                          \* the division by pos.quantity raises after the cash
                          \* and the quantity were written
                          THEN Executed(FALSE, "ZeroDivisionError", c2,
                                        Put(ps, order.symbol, SimulatorPosition(0, pos.avg_price)), order, th)
                          ELSE filled(c2, Put(ps, order.symbol, SimulatorPosition(quantity, FracOver(total_value, quantity))),
                                      commission_cost)
                 ELSE filled(c2, Put(ps, order.symbol, SimulatorPosition(order.quantity, Whole(exec_price))),
                             commission_cost)
        ELSE IF order.symbol \notin DOMAIN ps THEN rejected
        ELSE LET pos == ps[order.symbol]
                 gross == order.quantity * exec_price
                 commission_cost == Times(gross, simulator_commission)
                 stamp_duty == Times(gross, simulator_stamp_duty)
                 net == gross - commission_cost - stamp_duty
                 quantity == pos.quantity - order.quantity
             IN  IF pos.quantity < order.quantity THEN rejected
                 ELSE filled(c + net,
                             IF quantity = 0 THEN Del(ps, order.symbol)
                             ELSE Put(ps, order.symbol, SimulatorPosition(quantity, pos.avg_price)),
                             commission_cost)

\* execute_order without its test of the status
execute_order_any_status(order, current_price, c, ps, th) ==
    execute_pending(order, current_price, c, ps, th)

\* execute_order(order, current_price): an order that is not PENDING is left alone
execute_order(order, current_price, c, ps, th) ==
    IF order.status # "PENDING" THEN Executed(FALSE, "None", c, ps, order, th)
    ELSE execute_pending(order, current_price, c, ps, th)

\* a call on the simulator: the method, the order it was about, that order's
\* status when the call was made, the value returned and the exception raised
SimulatorCall(op, order_id, status, ret, raised) ==
    [op |-> op, order_id |-> order_id, status |-> status, ret |-> ret, raised |-> raised]

\* TradingSimulator(initial_capital, commission, slippage)
SimulatorInit ==
    /\ engine = "simulator"
    /\ date = 0
    /\ cash = simulator_initial_capital
    /\ positions = EmptyDict
    /\ trades = <<>>
    /\ today_buy = EmptyDict
    /\ equity_curve = <<>>
    /\ dates = <<>>
    /\ last = SimulatorCall("init", 0, "None", TRUE, "None")
    /\ NoRun
    /\ NoAnalyzer
    /\ NoSimulator

\* create_order(symbol, action, quantity)
CreateOrder ==
    \E symbol \in SimulatorSymbols, action \in SimulatorActions, quantity \in SimulatorQuantities :
        /\ order_id_counter < MaxOrders
        /\ order_id_counter' = order_id_counter + 1
        /\ orders' = Append(orders, Order(order_id_counter', symbol, action, quantity))
        /\ last' = SimulatorCall("create_order", order_id_counter', "None", TRUE, "None")
        /\ UNCHANGED <<engine, date, cash, positions, trades, today_buy, driver, analyzer, trade_history>>

\* execute_order(order, current_price) on any order the simulator created,
\* whatever its status
ExecuteOrder ==
    \E i \in 1..Len(orders), current_price \in SimulatorPrices :
        LET out == execute_order(orders[i], current_price, cash, positions, trade_history)
        IN  /\ cash' = out.cash
            /\ positions' = out.positions
            /\ orders' = [orders EXCEPT ![i] = out.order]
            /\ trade_history' = out.trade_history
            /\ last' = SimulatorCall("execute_order", orders[i].order_id, orders[i].status, out.ret, out.raised)
            /\ UNCHANGED <<engine, date, trades, today_buy, driver, analyzer, order_id_counter>>

\* process_market_order(symbol, action, quantity, current_price): create_order,
\* then execute_order on the new order
ProcessMarketOrder ==
    \E symbol \in SimulatorSymbols, action \in SimulatorActions, quantity \in SimulatorQuantities,
       current_price \in SimulatorPrices :
        LET order == Order(order_id_counter + 1, symbol, action, quantity)
            out == execute_order(order, current_price, cash, positions, trade_history)
        IN  /\ order_id_counter < MaxOrders
            /\ order_id_counter' = order_id_counter + 1
            /\ cash' = out.cash
            /\ positions' = out.positions
            /\ orders' = Append(orders, out.order)
            /\ trade_history' = out.trade_history
            /\ last' = SimulatorCall("process_market_order", order.order_id, "None", out.ret, out.raised)
            /\ UNCHANGED <<engine, date, trades, today_buy, driver, analyzer>>

\* cancel_order(order_id): the first order with that id that is PENDING
CancelOrder ==
    \E order_id \in 1..MaxOrders :
        LET found == {i \in 1..Len(orders) : orders[i].order_id = order_id /\ orders[i].status = "PENDING"}
            status == IF \E i \in 1..Len(orders) : orders[i].order_id = order_id
                      THEN orders[CHOOSE i \in 1..Len(orders) : orders[i].order_id = order_id].status
                      ELSE "None"
        IN  /\ IF found # {}
               THEN LET i == CHOOSE i \in found : \A j \in found : i <= j
                    IN  orders' = [orders EXCEPT ![i].status = "CANCELLED"]
               ELSE UNCHANGED orders
            /\ last' = SimulatorCall("cancel_order", order_id, status, found # {}, "None")
            /\ UNCHANGED <<engine, date, cash, positions, trades, today_buy, driver, analyzer,
                           order_id_counter, trade_history>>

SimulatorNext == CreateOrder \/ ExecuteOrder \/ ProcessMarketOrder \/ CancelOrder

SimulatorSpec == SimulatorInit /\ [][SimulatorNext]_vars

----------------------------------------------------------------------------
(* C30: the life of an order *)

OrderStatuses == {"PENDING", "FILLED", "CANCELLED", "REJECTED"}

\* the entries of trade_history written for the order at index i
HistoryOf(i) == {k \in 1..Len(trade_history) : trade_history[k].order_id = orders[i].order_id}

\* one entry for every FILLED order, none for any other order, none for anything else
HistoryMatchesFilled ==
    /\ \A i \in 1..Len(orders) :
        Cardinality(HistoryOf(i)) = IF orders[i].status = "FILLED" THEN 1 ELSE 0
    /\ \A k \in 1..Len(trade_history) :
        \E i \in 1..Len(orders) : trade_history[k].order_id = orders[i].order_id

\* an order stays in the list, and once it is not PENDING no call changes it
StatusIsTerminal ==
    \A i \in 1..Len(orders) :
        /\ i <= Len(orders')
        /\ orders'[i].order_id = orders[i].order_id
        /\ orders'[i].status \in OrderStatuses
        /\ (orders[i].status # "PENDING" => orders'[i] = orders[i])

\* execute_order was called on an order that was not PENDING
ExecutesSettledOrder == last'.op = "execute_order" /\ last'.status # "PENDING"

\* C30: whatever create_order, execute_order, process_market_order and cancel_order
\* calls are made on a TradingSimulator, an order's status leaves PENDING at most
\* once and FILLED, CANCELLED and REJECTED are terminal; execute_order on an order
\* that is not PENDING returns False and changes no cash, position, order or trade
\* history; and trade_history holds exactly one entry for every FILLED order and
\* none for any other.
C30_OrderLifecycle ==
    /\ []HistoryMatchesFilled
    /\ [][/\ StatusIsTerminal
          /\ (ExecutesSettledOrder =>
                (~last'.ret /\ UNCHANGED <<cash, positions, orders, order_id_counter, trade_history>>))]_vars

\* a FILLED, a CANCELLED and a REJECTED order, and execute_order just refused the
\* FILLED one
C30_Witness ==
    /\ last.op = "execute_order"
    /\ last.status = "FILLED"
    /\ ~last.ret
    /\ \A st \in {"FILLED", "CANCELLED", "REJECTED"} : \E i \in 1..Len(orders) : orders[i].status = st
    /\ trade_history # <<>>

====
